---------------------------- MODULE Spec2Model ----------------------------
(***************************************************************************)
(* Model of the direct-action bridge (internal/messaging/handler.go): the  *)
(* PLC command callback, the robot state callback and the two correlation  *)
(* maps they share.  Strings whose structure the code inspects (commands,  *)
(* order ids, responses) are sequences of one-character strings.           *)
(***************************************************************************)
EXTENDS Integers, Sequences, FiniteSets, TLC

VARIABLES
    activeOrders,     \* h.activeOrders: orderID -> original command
    canceledOrders,   \* h.canceledOrders: orderID -> original cancel command
    headerIDCounter,  \* package variable headerIDCounter
    clock,            \* last value time.Now().UnixNano() returned
    pc,               \* "idle", the function the last callback ended in, or "panic"
    msg,              \* the MQTT message the last callback was invoked with
    out,              \* the Publish calls the last callback made, in order
    goroutines,       \* concurrent callbacks: each goroutine's position and locals
    delivered,        \* concurrent callbacks: number of messages delivered
    answered          \* concurrent callbacks: orderIDs answered with a final
                      \* status by processActionStates

vars ==
    <<activeOrders, canceledOrders, headerIDCounter, clock, pc, msg, out,
      goroutines, delivered, answered>>

(***************************************************************************)
(* Bounds of the model.                                                    *)
(***************************************************************************)
MaxClock == 1
MaxHeader == 4
MaxActions == 2
MaxDelivered == 3
MaxCommands == 3

(***************************************************************************)
(* Strings.                                                                *)
(***************************************************************************)
Colon == ":"

Whitespace == {" ", "\t", "\n", "\r"}

\* strings.HasSuffix
HasSuffix(s, suffix) ==
    /\ Len(s) >= Len(suffix)
    /\ SubSeq(s, Len(s) - Len(suffix) + 1, Len(s)) = suffix

\* strings.Contains
Contains(s, substr) ==
    \E i \in 1..(Len(s) - Len(substr) + 1) :
        SubSeq(s, i, i + Len(substr) - 1) = substr

RECURSIVE TrimLeft(_)
TrimLeft(s) ==
    IF s # <<>> /\ Head(s) \in Whitespace THEN TrimLeft(Tail(s)) ELSE s

RECURSIVE TrimRight(_)
TrimRight(s) ==
    IF s # <<>> /\ s[Len(s)] \in Whitespace
    THEN TrimRight(SubSeq(s, 1, Len(s) - 1))
    ELSE s

\* strings.TrimSpace
TrimSpace(s) == TrimRight(TrimLeft(s))

\* strings.Split(s, ":"): the fields between the separators, empty ones kept;
\* a string without separator is its own single field.
RECURSIVE SplitFrom(_, _, _)
SplitFrom(s, i, field) ==
    IF i > Len(s) THEN <<field>>
    ELSE IF s[i] = Colon THEN <<field>> \o SplitFrom(s, i + 1, <<>>)
    ELSE SplitFrom(s, i + 1, Append(field, s[i]))

Split(s) == SplitFrom(s, 1, <<>>)

HexDigits == <<"0", "1", "2", "3", "4", "5", "6", "7",
               "8", "9", "a", "b", "c", "d", "e", "f">>

HexWidth == 16

RECURSIVE Hex(_)
Hex(n) ==
    IF n < Len(HexDigits) THEN <<HexDigits[n + 1]>>
    ELSE Append(Hex(n \div Len(HexDigits)), HexDigits[(n % Len(HexDigits)) + 1])

RECURSIVE PadLeft(_, _)
PadLeft(s, width) == IF Len(s) >= width THEN s ELSE PadLeft(<<"0">> \o s, width)

\* fmt.Sprintf("%016x", n)
Sprintf016x(n) == PadLeft(Hex(n), HexWidth)

(***************************************************************************)
(* Maps.                                                                   *)
(***************************************************************************)
EmptyMap == << >>

MapPut(m, k, v) == [x \in (DOMAIN m) \cup {k} |-> IF x = k THEN v ELSE m[x]]

MapDelete(m, k) == [x \in (DOMAIN m) \ {k} |-> m[x]]

(***************************************************************************)
(* types/plc.go                                                            *)
(***************************************************************************)
PLCStatusWaiting == <<"W">>
PLCStatusInitializing == <<"I">>
PLCStatusRunning == <<"R">>
PLCStatusSuccess == <<"S">>
PLCStatusFailed == <<"F">>

\* extractBaseCommand returning the command as it is.
extractBaseCommandWhole(command) == command

\* extractBaseCommand: the first field of the split (Split never returns an
\* empty list, so the fallback is not taken).
extractBaseCommand(command) ==
    LET parts == Split(command)
    IN  IF Len(parts) > 0 THEN parts[1] ELSE command

NewPLCResponse(command, status) ==
    [Command |-> extractBaseCommand(command), Status |-> status]

\* ToResponseString without the separator.
ToResponseStringNoColon(r) == r.Command \o r.Status

ToResponseString(r) == r.Command \o <<Colon>> \o r.Status


(***************************************************************************)
(* types/order.go, types/instant_actions.go.  The manufacturer and serial  *)
(* number are configuration constants and are left out of the documents.   *)
(***************************************************************************)
BlockingTypeNone == "NONE"
BlockingTypeHard == "HARD"

NewOrderMessage(headerID, orderID, orderUpdateID, now) ==
    [headerId |-> headerID, timestamp |-> now, version |-> "2.0.0",
     orderId |-> orderID, orderUpdateId |-> orderUpdateID,
     nodes |-> <<>>, edges |-> <<>>]

NewNode(nodeID, sequenceID, released) ==
    [nodeId |-> nodeID, sequenceId |-> sequenceID, released |-> released,
     actions |-> <<>>]

NewAction(actionType, actionID, blockingType) ==
    [actionType |-> actionType, actionId |-> actionID,
     blockingType |-> blockingType, actionParameters |-> <<>>]

NodeAddAction(node, action) ==
    [node EXCEPT !.actions = Append(node.actions, action)]

AddNode(order, node) == [order EXCEPT !.nodes = Append(order.nodes, node)]

NewInstantActionsMessage(headerID, now) ==
    [headerId |-> headerID, timestamp |-> now, version |-> "2.0.0",
     actions |-> <<>>]

NewInstantAction(actionType, actionID, blockingType) ==
    [actionType |-> actionType, actionId |-> actionID,
     blockingType |-> blockingType, actionParameters |-> <<>>]

InstantAddAction(m, action) == [m EXCEPT !.actions = Append(m.actions, action)]

(***************************************************************************)
(* Messages.  A command message carries its payload text; a state message  *)
(* carries the JSON document as json.Unmarshal sees it: not an object      *)
(* (valid = FALSE), or an object whose fields are tagged values.           *)
(***************************************************************************)
Absent == [kind |-> "absent", val |-> <<>>]
Number == [kind |-> "number", val |-> <<>>]
String(s) == [kind |-> "string", val |-> s]
Array(elems) == [kind |-> "array", val |-> elems]

\* One element of actionStates: isObject is the outcome of the type
\* assertion to a JSON object, hasStatus that of its actionStatus to a string.
ActionState(status) == [isObject |-> TRUE, hasStatus |-> TRUE, actionStatus |-> status]
NoStatusActionState == [isObject |-> TRUE, hasStatus |-> FALSE, actionStatus |-> ""]
NoObjectActionState == [isObject |-> FALSE, hasStatus |-> FALSE, actionStatus |-> ""]

NoReport == [valid |-> FALSE, orderId |-> Absent, actionStates |-> Absent]

NoMsg == [topic |-> "", payload |-> <<>>, report |-> NoReport]
CommandMsg(payload) ==
    [topic |-> "bridge/command", payload |-> payload, report |-> NoReport]
StateMsg(report) == [topic |-> "state", payload |-> <<>>, report |-> report]

\* One call of MQTTClient.Publish and whether it returned nil.
Published(topic, payload, ok) == [topic |-> topic, payload |-> payload, ok |-> ok]

(***************************************************************************)
(* Identifier generation and the header counter.  A clock read returns a   *)
(* value not below the previous one.                                       *)
(***************************************************************************)
ClockReads(from) == from..MaxClock

generateOrderID(now) == Sprintf016x(now)
\* generateNodeID without the offset.
generateNodeIDNoOffset(now) == Sprintf016x(now)
generateNodeID(now) == Sprintf016x(now + 1)
generateActionID(now) == Sprintf016x(now + 2)

\* getNextHeaderID advancing the counter twice.
getNextHeaderIDTwice == headerIDCounter + 1 + 1

getNextHeaderID == headerIDCounter + 1

(***************************************************************************)
(* Classification and order construction.                                  *)
(***************************************************************************)
isDirectActionCommand(commandStr) ==
    HasSuffix(commandStr, <<Colon, "I">>) \/ Contains(commandStr, <<Colon, "T">>)

\* isCancelCommand tested after the direct-action rule for trajectories.
isCancelCommandUnlessTrajectory(commandStr) ==
    HasSuffix(commandStr, <<Colon, "C">>) /\ ~Contains(commandStr, <<Colon, "T">>)

isCancelCommand(commandStr) == HasSuffix(commandStr, <<Colon, "C">>)

\* parseArmParam with the unknown codes resolved to the left arm.
parseArmParamUnknownLeft(armParam) ==
    IF armParam = <<"R">> \/ armParam = <<>> THEN "right"
    ELSE "left"

parseArmParam(armParam) ==
    IF armParam = <<"R">> \/ armParam = <<>> THEN "right"
    ELSE IF armParam = <<"L">> THEN "left"
    ELSE "right"

\* buildActionParameters with every other command type built as an inference.
buildActionParametersDefaultInference(baseCommand, commandType, armParam) ==
    IF commandType = "T"
    THEN [actionType |-> "Roboligent Robin - Follow Trajectory",
          actionParameters |->
              <<[key |-> "trajectory_name", value |-> baseCommand],
                [key |-> "arm", value |-> parseArmParam(armParam)]>>]
    ELSE [actionType |-> "Roboligent Robin - Inference",
          actionParameters |-> <<[key |-> "inference_name", value |-> baseCommand]>>]

buildActionParameters(baseCommand, commandType, armParam) ==
    IF commandType = "I"
    THEN [actionType |-> "Roboligent Robin - Inference",
          actionParameters |-> <<[key |-> "inference_name", value |-> baseCommand]>>]
    ELSE IF commandType = "T"
    THEN [actionType |-> "Roboligent Robin - Follow Trajectory",
          actionParameters |->
              <<[key |-> "trajectory_name", value |-> baseCommand],
                [key |-> "arm", value |-> parseArmParam(armParam)]>>]
    ELSE [actionType |-> "", actionParameters |-> <<>>]

\* buildOrder with a HARD blocking action.
buildOrderHardBlocking(orderID, nodeID, actionID, actionType, actionParameters, now) ==
    LET order == NewOrderMessage(getNextHeaderID, orderID, 0, now)
        node == NewNode(nodeID, 1, TRUE)
        action == [NewAction(actionType, actionID, BlockingTypeHard)
                      EXCEPT !.actionParameters = actionParameters]
    IN  AddNode(order, NodeAddAction(node, action))

buildOrder(orderID, nodeID, actionID, actionType, actionParameters, now) ==
    LET order == NewOrderMessage(getNextHeaderID, orderID, 0, now)
        node == NewNode(nodeID, 1, TRUE)
        action == [NewAction(actionType, actionID, BlockingTypeNone)
                      EXCEPT !.actionParameters = actionParameters]
    IN  AddNode(order, NodeAddAction(node, action))

sendPLCResponse(command, status, ok) ==
    Published("response", ToResponseString(NewPLCResponse(command, status)), ok)

(***************************************************************************)
(* The end of a callback: where it ended, the new values of the shared     *)
(* state and the Publish calls it made.                                    *)
(***************************************************************************)
Finish(at, active, canceled, header, now, published) ==
    /\ pc' = at
    /\ activeOrders' = active
    /\ canceledOrders' = canceled
    /\ headerIDCounter' = header
    /\ clock' = now
    /\ out' = published

\* An index out of range: the callback panics and the process ends.
Panic ==
    /\ pc' = "panic"
    /\ out' = <<>>
    /\ UNCHANGED <<activeOrders, canceledOrders, headerIDCounter, clock>>

(***************************************************************************)
(* handleDirectAction with sendDirectActionOrder and publishOrder.  The    *)
(* functions that return (value, error) return a record here, with the     *)
(* header counter and the clock as they leave them and their Publish call. *)
(***************************************************************************)
\* publishOrder with the error of Publish ignored.
publishOrderIgnoringError(order, orderID, now, okOrder) ==
    [orderID |-> orderID,
     err |-> FALSE,
     header |-> order.headerId,
     now |-> now,
     published |-> <<Published("order", order, okOrder)>>]

\* publishOrder with a second attempt after a failed Publish.
publishOrderRetrying(order, orderID, now, okOrder) ==
    [orderID |-> IF okOrder THEN orderID ELSE <<>>,
     err |-> ~okOrder,
     header |-> order.headerId,
     now |-> now,
     published |-> IF okOrder
                   THEN <<Published("order", order, okOrder)>>
                   ELSE <<Published("order", order, okOrder),
                          Published("order", order, okOrder)>>]

publishOrder(order, orderID, now, okOrder) ==
    [orderID |-> IF okOrder THEN orderID ELSE <<>>,
     err |-> ~okOrder,
     header |-> order.headerId,
     now |-> now,
     published |-> <<Published("order", order, okOrder)>>]

\* sendDirectActionOrder taking a header id before it looks at the type.
sendDirectActionOrderCountingFirst(baseCommand, commandType, armParam, t1, t2, t3, t4, okOrder) ==
    LET built == buildActionParameters(baseCommand, commandType, armParam)
    IN  IF built.actionType = ""
        THEN [orderID |-> <<>>, err |-> TRUE, header |-> getNextHeaderID,
              now |-> clock, published |-> <<>>]
        ELSE LET orderID == generateOrderID(t1)
                 nodeID == generateNodeID(t2)
                 actionID == generateActionID(t3)
                 order == buildOrder(orderID, nodeID, actionID, built.actionType,
                                     built.actionParameters, t4)
             IN  publishOrder(order, orderID, t4, okOrder)

\* t1, t2, t3, t4: the clock as generateOrderID, generateNodeID,
\* generateActionID and NewOrderMessage read it.
sendDirectActionOrder(baseCommand, commandType, armParam, t1, t2, t3, t4, okOrder) ==
    LET built == buildActionParameters(baseCommand, commandType, armParam)
    IN  IF built.actionType = ""
        THEN [orderID |-> <<>>, err |-> TRUE, header |-> headerIDCounter,
              now |-> clock, published |-> <<>>]
        ELSE LET orderID == generateOrderID(t1)
                 nodeID == generateNodeID(t2)
                 actionID == generateActionID(t3)
                 order == buildOrder(orderID, nodeID, actionID, built.actionType,
                                     built.actionParameters, t4)
             IN  publishOrder(order, orderID, t4, okOrder)

handleDirectAction(commandStr) ==
    LET parts == Split(commandStr)
    IN  IF Len(parts) < 2
        THEN \E ok \in BOOLEAN :
                Finish("handleDirectAction", activeOrders, canceledOrders,
                       headerIDCounter, clock,
                       <<sendPLCResponse(commandStr, PLCStatusFailed, ok)>>)
        ELSE IF Len(parts[2]) = 0
        THEN Panic
        ELSE LET baseCommand == parts[1]
                 cmdType == parts[2][1]
                 armParam == IF Len(parts) >= 3 THEN parts[3] ELSE <<>>
             IN  /\ buildActionParameters(baseCommand, cmdType, armParam).actionType # ""
                        => headerIDCounter < MaxHeader
                 /\ \E t1 \in ClockReads(clock) : \E t2 \in ClockReads(t1) :
                    \E t3 \in ClockReads(t2) : \E t4 \in ClockReads(t3) :
                    \E okOrder \in BOOLEAN :
                        LET sent == sendDirectActionOrder(baseCommand, cmdType,
                                        armParam, t1, t2, t3, t4, okOrder)
                        IN  IF sent.err
                            THEN \E ok \in BOOLEAN :
                                    Finish("handleDirectAction", activeOrders,
                                           canceledOrders, sent.header, sent.now,
                                           sent.published \o
                                           <<sendPLCResponse(commandStr,
                                                 PLCStatusFailed, ok)>>)
                            ELSE Finish("handleDirectAction",
                                        MapPut(activeOrders, sent.orderID, commandStr),
                                        canceledOrders, sent.header, sent.now,
                                        sent.published)

(***************************************************************************)
(* handleCancelCommand with sendCancelOrder.  The range over the map       *)
(* visits the entries in any order, so any matching entry may be the       *)
(* target; the target stays "" when none matches.                          *)
(***************************************************************************)
\* CancelTargets matching the inference orders only.
CancelTargetsInferenceOnly(baseCommand) ==
    LET matching == {orderID \in DOMAIN activeOrders :
                        /\ extractBaseCommand(activeOrders[orderID]) = baseCommand
                        /\ HasSuffix(activeOrders[orderID], <<Colon, "I">>)}
    IN  IF matching = {} THEN {<<>>} ELSE matching

\* CancelTargets searching the canceled orders as well.
CancelTargetsAlsoCanceled(baseCommand) ==
    LET matching == {orderID \in DOMAIN activeOrders :
                        extractBaseCommand(activeOrders[orderID]) = baseCommand}
                    \cup
                    {orderID \in DOMAIN canceledOrders :
                        extractBaseCommand(canceledOrders[orderID]) = baseCommand}
    IN  IF matching = {} THEN {<<>>} ELSE matching

\* CancelTargets without the comparison of the base commands.
CancelTargetsAnyOrder(baseCommand) ==
    IF DOMAIN activeOrders = {} THEN {<<>>} ELSE DOMAIN activeOrders

CancelTargets(baseCommand) ==
    LET matching == {orderID \in DOMAIN activeOrders :
                        extractBaseCommand(activeOrders[orderID]) = baseCommand}
    IN  IF matching = {} THEN {<<>>} ELSE matching

\* sendCancelOrder without the AddAction call.
sendCancelOrderNoAction(orderID, t1, t2, okCancel) ==
    LET instantActions == NewInstantActionsMessage(getNextHeaderID, t1)
    IN  [err |-> ~okCancel,
         header |-> instantActions.headerId,
         now |-> t2,
         published |-> <<Published("instantActions", instantActions, okCancel)>>]

\* t1, t2: the clock as NewInstantActionsMessage and generateActionID read it.
sendCancelOrder(orderID, t1, t2, okCancel) ==
    LET cancelAction == NewInstantAction("cancelOrder", generateActionID(t2),
                                         BlockingTypeHard)
        instantActions == InstantAddAction(
                              NewInstantActionsMessage(getNextHeaderID, t1),
                              cancelAction)
    IN  [err |-> ~okCancel,
         header |-> instantActions.headerId,
         now |-> t2,
         published |-> <<Published("instantActions", instantActions, okCancel)>>]

handleCancelCommand(commandStr) ==
    \E targetOrderID \in CancelTargets(extractBaseCommand(commandStr)) :
        IF targetOrderID = <<>>
        THEN \E ok \in BOOLEAN :
                Finish("handleCancelCommand", activeOrders, canceledOrders,
                       headerIDCounter, clock,
                       <<sendPLCResponse(commandStr, PLCStatusFailed, ok)>>)
        ELSE /\ headerIDCounter < MaxHeader
             /\ \E t1 \in ClockReads(clock) : \E t2 \in ClockReads(t1) :
                \E okCancel \in BOOLEAN :
                    LET sent == sendCancelOrder(targetOrderID, t1, t2, okCancel)
                    IN  IF sent.err
                        THEN \E ok \in BOOLEAN :
                                Finish("handleCancelCommand", activeOrders,
                                       canceledOrders, sent.header, sent.now,
                                       sent.published \o
                                       <<sendPLCResponse(commandStr,
                                             PLCStatusFailed, ok)>>)
                        ELSE Finish("handleCancelCommand",
                                    MapDelete(activeOrders, targetOrderID),
                                    MapPut(canceledOrders, targetOrderID, commandStr),
                                    sent.header, sent.now, sent.published)

HandlePLCCommand(payload) ==
    /\ msg' = CommandMsg(payload)
    /\ LET commandStr == TrimSpace(payload)
       IN  IF isCancelCommand(commandStr)
           THEN handleCancelCommand(commandStr)
           ELSE IF ~isDirectActionCommand(commandStr)
           THEN \E ok \in BOOLEAN :
                   Finish("HandlePLCCommand", activeOrders, canceledOrders,
                          headerIDCounter, clock,
                          <<sendPLCResponse(commandStr, PLCStatusFailed, ok)>>)
           ELSE handleDirectAction(commandStr)

(***************************************************************************)
(* HandleRobotState with processActionStates and                           *)
(* processCanceledOrderStates.                                             *)
(***************************************************************************)
\* statusCounts with every status the switch does not name counted as
\* RUNNING.
RECURSIVE statusCountsUnknownAsRunning(_, _)
statusCountsUnknownAsRunning(actionStates, status) ==
    IF actionStates = <<>> THEN 0
    ELSE LET actionState == Head(actionStates)
             counted == IF actionState.actionStatus \in
                              {"WAITING", "INITIALIZING", "RUNNING", "FINISHED", "FAILED"}
                        THEN actionState.actionStatus
                        ELSE "RUNNING"
         IN  (IF /\ actionState.isObject
                 /\ actionState.hasStatus
                 /\ counted = status
              THEN 1 ELSE 0) + statusCountsUnknownAsRunning(Tail(actionStates), status)

\* statusCounts[status] after the loop over actionStates
RECURSIVE statusCounts(_, _)
statusCounts(actionStates, status) ==
    IF actionStates = <<>> THEN 0
    ELSE LET actionState == Head(actionStates)
         IN  (IF /\ actionState.isObject
                 /\ actionState.hasStatus
                 /\ actionState.actionStatus = status
              THEN 1 ELSE 0) + statusCounts(Tail(actionStates), status)

\* ActiveDecision looking at the first reported status only.
ActiveDecisionFirstStatus(actionStates) ==
    LET first == IF actionStates = <<>> THEN "" ELSE Head(actionStates).actionStatus
    IN  IF first = "FAILED" THEN [send |-> PLCStatusFailed, delete |-> TRUE]
        ELSE IF first = "FINISHED" THEN [send |-> PLCStatusSuccess, delete |-> TRUE]
        ELSE IF first = "RUNNING" THEN [send |-> PLCStatusRunning, delete |-> FALSE]
        ELSE IF first = "INITIALIZING"
        THEN [send |-> PLCStatusInitializing, delete |-> FALSE]
        ELSE IF first = "WAITING" THEN [send |-> PLCStatusWaiting, delete |-> FALSE]
        ELSE [send |-> <<>>, delete |-> FALSE]

\* ActiveDecision with the FINISHED case forgetting to delete the entry.
ActiveDecisionKeepsFinished(actionStates) ==
    IF statusCounts(actionStates, "FAILED") > 0
    THEN [send |-> PLCStatusFailed, delete |-> TRUE]
    ELSE IF /\ statusCounts(actionStates, "FINISHED") > 0
            /\ statusCounts(actionStates, "RUNNING") = 0
            /\ statusCounts(actionStates, "INITIALIZING") = 0
            /\ statusCounts(actionStates, "WAITING") = 0
    THEN [send |-> PLCStatusSuccess, delete |-> FALSE]
    ELSE IF statusCounts(actionStates, "RUNNING") > 0
    THEN [send |-> PLCStatusRunning, delete |-> FALSE]
    ELSE IF statusCounts(actionStates, "INITIALIZING") > 0
    THEN [send |-> PLCStatusInitializing, delete |-> FALSE]
    ELSE IF statusCounts(actionStates, "WAITING") > 0
    THEN [send |-> PLCStatusWaiting, delete |-> FALSE]
    ELSE [send |-> <<>>, delete |-> FALSE]

\* ActiveDecision with the FINISHED case not looking at the actions still
\* in flight.
ActiveDecisionAnyFinished(actionStates) ==
    IF statusCounts(actionStates, "FAILED") > 0
    THEN [send |-> PLCStatusFailed, delete |-> TRUE]
    ELSE IF statusCounts(actionStates, "FINISHED") > 0
    THEN [send |-> PLCStatusSuccess, delete |-> TRUE]
    ELSE IF statusCounts(actionStates, "RUNNING") > 0
    THEN [send |-> PLCStatusRunning, delete |-> FALSE]
    ELSE IF statusCounts(actionStates, "INITIALIZING") > 0
    THEN [send |-> PLCStatusInitializing, delete |-> FALSE]
    ELSE IF statusCounts(actionStates, "WAITING") > 0
    THEN [send |-> PLCStatusWaiting, delete |-> FALSE]
    ELSE [send |-> <<>>, delete |-> FALSE]

\* ActiveDecision with the RUNNING case deleting the entry.
ActiveDecisionRunningDeletes(actionStates) ==
    IF statusCounts(actionStates, "FAILED") > 0
    THEN [send |-> PLCStatusFailed, delete |-> TRUE]
    ELSE IF /\ statusCounts(actionStates, "FINISHED") > 0
            /\ statusCounts(actionStates, "RUNNING") = 0
            /\ statusCounts(actionStates, "INITIALIZING") = 0
            /\ statusCounts(actionStates, "WAITING") = 0
    THEN [send |-> PLCStatusSuccess, delete |-> TRUE]
    ELSE IF statusCounts(actionStates, "RUNNING") > 0
    THEN [send |-> PLCStatusRunning, delete |-> TRUE]
    ELSE IF statusCounts(actionStates, "INITIALIZING") > 0
    THEN [send |-> PLCStatusInitializing, delete |-> FALSE]
    ELSE IF statusCounts(actionStates, "WAITING") > 0
    THEN [send |-> PLCStatusWaiting, delete |-> FALSE]
    ELSE [send |-> <<>>, delete |-> FALSE]

\* The switch of processActionStates: the status to send and whether the
\* entry is deleted; send = <<>> when no case applies.
ActiveDecision(actionStates) ==
    IF statusCounts(actionStates, "FAILED") > 0
    THEN [send |-> PLCStatusFailed, delete |-> TRUE]
    ELSE IF /\ statusCounts(actionStates, "FINISHED") > 0
            /\ statusCounts(actionStates, "RUNNING") = 0
            /\ statusCounts(actionStates, "INITIALIZING") = 0
            /\ statusCounts(actionStates, "WAITING") = 0
    THEN [send |-> PLCStatusSuccess, delete |-> TRUE]
    ELSE IF statusCounts(actionStates, "RUNNING") > 0
    THEN [send |-> PLCStatusRunning, delete |-> FALSE]
    ELSE IF statusCounts(actionStates, "INITIALIZING") > 0
    THEN [send |-> PLCStatusInitializing, delete |-> FALSE]
    ELSE IF statusCounts(actionStates, "WAITING") > 0
    THEN [send |-> PLCStatusWaiting, delete |-> FALSE]
    ELSE [send |-> <<>>, delete |-> FALSE]

\* CanceledDecision with FAILED anywhere in the report winning over an
\* earlier FINISHED, as in the reduction for active orders.
CanceledDecisionFailedWins(actionStates) ==
    IF statusCounts(actionStates, "FAILED") > 0 THEN PLCStatusFailed
    ELSE IF statusCounts(actionStates, "FINISHED") > 0 THEN PLCStatusSuccess
    ELSE <<>>

\* CanceledDecision with RUNNING answered as for an active order.
RECURSIVE CanceledDecisionRunningAnswered(_)
CanceledDecisionRunningAnswered(actionStates) ==
    IF actionStates = <<>> THEN <<>>
    ELSE LET actionState == Head(actionStates)
         IN  IF actionState.isObject /\ actionState.hasStatus
                /\ actionState.actionStatus = "FAILED"
             THEN PLCStatusFailed
             ELSE IF actionState.isObject /\ actionState.hasStatus
                     /\ actionState.actionStatus = "FINISHED"
             THEN PLCStatusSuccess
             ELSE IF actionState.isObject /\ actionState.hasStatus
                     /\ actionState.actionStatus = "RUNNING"
             THEN PLCStatusRunning
             ELSE CanceledDecisionRunningAnswered(Tail(actionStates))

\* CanceledDecision reduced as for an active order: FINISHED counts only
\* when no action is still in flight.
CanceledDecisionAsActive(actionStates) ==
    LET decision == ActiveDecision(actionStates)
    IN  IF decision.delete THEN decision.send ELSE <<>>

\* The loop of processCanceledOrderStates: the status sent at the first
\* element whose status is FAILED or FINISHED, <<>> when the loop ends
\* without one.
RECURSIVE CanceledDecision(_)
CanceledDecision(actionStates) ==
    IF actionStates = <<>> THEN <<>>
    ELSE LET actionState == Head(actionStates)
         IN  IF actionState.isObject /\ actionState.hasStatus
                /\ actionState.actionStatus = "FAILED"
             THEN PLCStatusFailed
             ELSE IF actionState.isObject /\ actionState.hasStatus
                     /\ actionState.actionStatus = "FINISHED"
             THEN PLCStatusSuccess
             ELSE CanceledDecision(Tail(actionStates))

processActionStates(orderID, originalCommand, actionStates) ==
    LET decision == ActiveDecision(actionStates)
    IN  IF decision.send = <<>>
        THEN Finish("processActionStates", activeOrders, canceledOrders,
                    headerIDCounter, clock, <<>>)
        ELSE \E ok \in BOOLEAN :
                Finish("processActionStates",
                       IF decision.delete
                       THEN MapDelete(activeOrders, orderID)
                       ELSE activeOrders,
                       canceledOrders, headerIDCounter, clock,
                       <<sendPLCResponse(originalCommand, decision.send, ok)>>)

\* processCanceledOrderStates without the delete.
processCanceledOrderStatesKeepingEntry(orderID, originalCancelCommand, actionStates) ==
    LET status == CanceledDecision(actionStates)
    IN  IF status = <<>>
        THEN Finish("processCanceledOrderStates", activeOrders, canceledOrders,
                    headerIDCounter, clock, <<>>)
        ELSE \E ok \in BOOLEAN :
                Finish("processCanceledOrderStates", activeOrders,
                       canceledOrders, headerIDCounter, clock,
                       <<sendPLCResponse(originalCancelCommand, status, ok)>>)

processCanceledOrderStates(orderID, originalCancelCommand, actionStates) ==
    LET status == CanceledDecision(actionStates)
    IN  IF status = <<>>
        THEN Finish("processCanceledOrderStates", activeOrders, canceledOrders,
                    headerIDCounter, clock, <<>>)
        ELSE \E ok \in BOOLEAN :
                Finish("processCanceledOrderStates", activeOrders,
                       MapDelete(canceledOrders, orderID),
                       headerIDCounter, clock,
                       <<sendPLCResponse(originalCancelCommand, status, ok)>>)

\* Dispatch with the two lookups in the other order.
DispatchActiveFirst(orderID) ==
    IF orderID \in DOMAIN activeOrders THEN "active"
    ELSE IF orderID \in DOMAIN canceledOrders THEN "canceled"
    ELSE "none"

\* The lookups of HandleRobotState: which map the report is handled against.
Dispatch(orderID) ==
    IF orderID \in DOMAIN canceledOrders THEN "canceled"
    ELSE IF orderID \in DOMAIN activeOrders THEN "active"
    ELSE "none"

\* Dropped with the active orders forgotten.
DroppedForgettingOrders ==
    Finish("HandleRobotState", EmptyMap, canceledOrders, headerIDCounter,
           clock, <<>>)

\* The report is not processed: HandleRobotState returns without effect.
Dropped ==
    Finish("HandleRobotState", activeOrders, canceledOrders, headerIDCounter,
           clock, <<>>)

HandleRobotState(report) ==
    /\ msg' = StateMsg(report)
    /\ IF ~report.valid
       THEN Dropped
       ELSE IF ~(report.orderId.kind = "string" /\ report.orderId.val # <<>>)
       THEN Dropped
       ELSE LET orderID == report.orderId.val
                hasActions == report.actionStates.kind = "array"
                actionStates == report.actionStates.val
            IN  IF Dispatch(orderID) = "canceled"
                THEN IF hasActions
                     THEN processCanceledOrderStates(orderID,
                              canceledOrders[orderID], actionStates)
                     ELSE Dropped
                ELSE IF Dispatch(orderID) = "active"
                THEN IF hasActions
                     THEN processActionStates(orderID, activeOrders[orderID],
                                              actionStates)
                     ELSE Dropped
                ELSE Dropped

\* The callback returns to the MQTT client: its message and what it
\* published are gone, the shared state stays.
Return ==
    /\ pc \notin {"idle", "panic"}
    /\ pc' = "idle"
    /\ msg' = NoMsg
    /\ out' = <<>>
    /\ UNCHANGED <<activeOrders, canceledOrders, headerIDCounter, clock>>
    /\ UNCHANGED <<goroutines, delivered, answered>>

(***************************************************************************)
(* The messages the broker delivers.                                       *)
(***************************************************************************)
Payloads ==
    { <<"P", Colon, "I">>,
      <<" ", "P", Colon, "I", "\n">>,
      <<"Q", Colon, "T", Colon, "L">>,
      <<"P", Colon, "C">>,
      <<"P", Colon, "X">>,
      <<"P">>,
      <<>>,
      <<"P", Colon, Colon, "I">>,
      <<"P", Colon, "X", Colon, "I">> }

ActionStatuses == {"WAITING", "INITIALIZING", "RUNNING", "FINISHED", "FAILED"}

ActionStateValues ==
    {ActionState(status) : status \in ActionStatuses \cup {"PAUSED"}}
        \cup {NoStatusActionState, NoObjectActionState}

RECURSIVE ListsUpTo(_, _)
ListsUpTo(S, n) ==
    IF n = 0 THEN {<<>>}
    ELSE LET shorter == ListsUpTo(S, n - 1)
         IN  shorter \cup {Append(l, x) : l \in shorter, x \in S}

TrackableOrderIds == {String(Sprintf016x(n)) : n \in 0..MaxClock}

ActionStatesValues ==
    {Absent, Number} \cup {Array(l) : l \in ListsUpTo(ActionStateValues, MaxActions)}

\* The reports: no JSON object; an object without a usable orderId (missing,
\* not a string, empty), which is dropped before actionStates matters; and
\* every combination of an order id with a value of actionStates.
Reports ==
    {NoReport}
    \cup {[valid |-> TRUE, orderId |-> o, actionStates |-> a] :
            o \in {Absent, Number, String(<<>>)},
            a \in {Absent, Array(<<>>), Array(<<ActionState("FAILED")>>)}}
    \cup {[valid |-> TRUE, orderId |-> o, actionStates |-> a] :
            o \in TrackableOrderIds, a \in ActionStatesValues}

(***************************************************************************)
(* The goroutines callbacks run on when the client dispatches messages     *)
(* concurrently, and the locals of one that runs no callback.              *)
(***************************************************************************)
Goroutines == {1, 2}

Idle ==
    [at |-> "idle", callback |-> "", command |-> <<>>, orderID |-> <<>>,
     actionStates |-> <<>>, header |-> 0]

(***************************************************************************)
(* The specification: callbacks run one at a time.                         *)
(***************************************************************************)
Init ==
    /\ activeOrders = EmptyMap
    /\ canceledOrders = EmptyMap
    /\ headerIDCounter = 0
    /\ clock = 0
    /\ pc = "idle"
    /\ msg = NoMsg
    /\ out = <<>>
    /\ goroutines = [g \in Goroutines |-> Idle]
    /\ delivered = 0
    /\ answered = {}

\* Subscriber.handlePLCCommand: a message on bridge/command
handlePLCCommand ==
    /\ pc = "idle"
    /\ UNCHANGED <<goroutines, delivered, answered>>
    /\ \E payload \in Payloads : HandlePLCCommand(payload)

\* Subscriber.handleRobotState: a message on the robot's state topic
handleRobotState ==
    /\ pc = "idle"
    /\ UNCHANGED <<goroutines, delivered, answered>>
    /\ \E report \in Reports : HandleRobotState(report)

Next ==
    \/ handlePLCCommand
    \/ handleRobotState
    \/ Return

Spec == Init /\ [][Next]_vars

(***************************************************************************)
(* The specification of an order's life: the callbacks one at a time, as   *)
(* in Spec, on fewer messages, with the history of the orderIDs whose      *)
(* state report was answered with a final status (S or F) kept in          *)
(* answered.                                                               *)
(***************************************************************************)
LifetimePayloads ==
    { <<"P", Colon, "I">>, <<"Q", Colon, "T", Colon, "L">>, <<"P", Colon, "C">> }

LifetimeReports ==
    {[valid |-> TRUE, orderId |-> o, actionStates |-> Array(l)] :
        o \in TrackableOrderIds,
        l \in ListsUpTo({ActionState(status) :
                            status \in {"RUNNING", "FINISHED", "FAILED"}},
                        MaxActions)}

lifetimePLCCommand ==
    /\ pc = "idle"
    /\ UNCHANGED <<goroutines, delivered, answered>>
    /\ \E payload \in LifetimePayloads : HandlePLCCommand(payload)

lifetimeRobotState ==
    /\ pc = "idle"
    /\ UNCHANGED <<goroutines, delivered>>
    /\ \E report \in LifetimeReports :
          /\ HandleRobotState(report)
          /\ answered' =
                IF \E i \in 1..Len(out') :
                      /\ out'[i].topic = "response"
                      /\ out'[i].payload[Len(out'[i].payload)] \in {"S", "F"}
                THEN answered \cup {report.orderId.val}
                ELSE answered

LifetimeNext ==
    \/ lifetimePLCCommand
    \/ lifetimeRobotState
    \/ Return

LifetimeSpec == Init /\ [][LifetimeNext]_vars

(***************************************************************************)
(* The specification of delivery: the callbacks one at a time, with the    *)
(* state callback in its two parts: Subscriber.handleRobotState is invoked *)
(* with the message and logs it (pc = "Subscriber.handleRobotState", the   *)
(* report is delivered), then it calls HandleRobotState.  A callback that  *)
(* was invoked goes on to its end: the call and the return are weakly      *)
(* fair; the broker owes no message.                                       *)
(***************************************************************************)
receiveRobotState ==
    /\ pc = "idle"
    /\ \E report \in LifetimeReports :
          /\ pc' = "Subscriber.handleRobotState"
          /\ msg' = StateMsg(report)
    /\ UNCHANGED <<activeOrders, canceledOrders, headerIDCounter, clock, out>>
    /\ UNCHANGED <<goroutines, delivered, answered>>

callHandleRobotState ==
    /\ pc = "Subscriber.handleRobotState"
    /\ HandleRobotState(msg.report)
    /\ UNCHANGED <<goroutines, delivered, answered>>

returnFromCallback ==
    /\ pc # "Subscriber.handleRobotState"
    /\ Return

FairNext ==
    \/ lifetimePLCCommand
    \/ receiveRobotState
    \/ callHandleRobotState
    \/ returnFromCallback

FairSpec ==
    /\ Init
    /\ [][FairNext]_vars
    /\ WF_vars(callHandleRobotState)
    /\ WF_vars(returnFromCallback)

(***************************************************************************)
(* The specification of the command callback alone: up to MaxCommands      *)
(* commands, one at a time, drawn from direct actions of both types with   *)
(* and without arm code, on two bases, and the cancels of both bases.      *)
(***************************************************************************)
CommandPayloads ==
    { <<"P", Colon, "I">>,
      <<"Q", Colon, "I">>,
      <<"P", Colon, "T">>,
      <<"P", Colon, "T", Colon, "L">>,
      <<"P", Colon, "T", Colon, "R">>,
      <<"P", Colon, "T", Colon, "Z">>,
      <<"P", Colon, "T", Colon>>,
      <<"P", Colon, "C">>,
      <<"Q", Colon, "C">>,
      <<"P", Colon, "T", Colon, "C">>,
      <<" ", "Q", Colon, "T", Colon, "L", Colon, "C", "\n">> }

\* Subscriber.handlePLCCommand: a message on bridge/command
deliverPLCCommand ==
    /\ pc = "idle"
    /\ delivered < MaxCommands
    /\ delivered' = delivered + 1
    /\ UNCHANGED <<goroutines, answered>>
    /\ \E payload \in CommandPayloads : HandlePLCCommand(payload)

CommandNext ==
    \/ deliverPLCCommand
    \/ Return

CommandSpec == Init /\ [][CommandNext]_vars

(***************************************************************************)
(* The specification of concurrent callbacks.  The handler takes no lock   *)
(* (DirectActionHandler has no mutex and no function of handler.go         *)
(* synchronises), so when the client runs each callback on a goroutine of  *)
(* its own the callbacks interleave at every access to the maps and to     *)
(* headerIDCounter.  One step is one such access together with the local   *)
(* computation and the Publish calls that follow it; a map operation is    *)
(* one step.  headerIDCounter++ is a load and a store, and the value       *)
(* getNextHeaderID returns is the stored one or the one read back.         *)
(* Here every order gets a later clock value than the one before, so that  *)
(* no orderID repeats: what goes wrong is due to the interleaving alone.   *)
(* out is the sequence of all Publish calls, in order; pc and msg are not  *)
(* used.                                                                   *)
(***************************************************************************)
ConcurrentPayloads == { <<"P", Colon, "I">>, <<"P", Colon, "C">> }

ConcurrentReports ==
    {[valid |-> TRUE, orderId |-> o, actionStates |-> Array(<<ActionState(status)>>)] :
        o \in TrackableOrderIds, status \in {"RUNNING", "FINISHED"}}

Set(g, local) == goroutines' = [goroutines EXCEPT ![g] = local]

\* HandlePLCCommand up to the first access to the shared state: for a
\* cancel the search of activeOrders, for a direct action the generated
\* ids, before buildOrder calls getNextHeaderID.
BeginPLCCommand(g) ==
    /\ goroutines[g].at = "idle"
    /\ delivered < MaxDelivered
    /\ delivered' = delivered + 1
    /\ \E payload \in ConcurrentPayloads :
          LET commandStr == TrimSpace(payload)
              local == [Idle EXCEPT !.callback = "HandlePLCCommand",
                                    !.command = commandStr]
          IN  IF isCancelCommand(commandStr)
              THEN \E targetOrderID \in CancelTargets(extractBaseCommand(commandStr)) :
                      /\ IF targetOrderID = <<>>
                         THEN /\ \E ok \in BOOLEAN :
                                    out' = Append(out, sendPLCResponse(commandStr,
                                                           PLCStatusFailed, ok))
                              /\ Set(g, Idle)
                         ELSE /\ out' = out
                              /\ Set(g, [local EXCEPT !.at = "load",
                                                      !.orderID = targetOrderID])
                      /\ clock' = clock
              ELSE /\ isDirectActionCommand(commandStr)
                   /\ clock <= MaxClock
                   /\ clock' = clock + 1
                   /\ out' = out
                   /\ Set(g, [local EXCEPT !.at = "load",
                                           !.orderID = generateOrderID(clock)])
    /\ UNCHANGED <<activeOrders, canceledOrders, headerIDCounter, pc, msg, answered>>

\* getNextHeaderID: the load of headerIDCounter++
LoadHeaderID(g) ==
    /\ goroutines[g].at = "load"
    /\ Set(g, [goroutines[g] EXCEPT !.at = "store", !.header = headerIDCounter])
    /\ UNCHANGED <<activeOrders, canceledOrders, headerIDCounter, clock, pc, msg,
                   out, delivered, answered>>

\* getNextHeaderID: the store of headerIDCounter++
StoreHeaderID(g) ==
    /\ goroutines[g].at = "store"
    /\ headerIDCounter' = goroutines[g].header + 1
    /\ Set(g, [goroutines[g] EXCEPT !.at = "return"])
    /\ UNCHANGED <<activeOrders, canceledOrders, clock, pc, msg, out, delivered,
                   answered>>

\* getNextHeaderID: return headerIDCounter
ReturnHeaderID(g) ==
    /\ goroutines[g].at = "return"
    /\ \E header \in {goroutines[g].header + 1, headerIDCounter} :
          Set(g, [goroutines[g] EXCEPT !.at = "publish", !.header = header])
    /\ UNCHANGED <<activeOrders, canceledOrders, headerIDCounter, clock, pc, msg,
                   out, delivered, answered>>

\* publishOrder, resp. the Publish of sendCancelOrder, with the Failed
\* response of the caller when Publish returns an error.
PublishToRobot(g) ==
    /\ goroutines[g].at = "publish"
    /\ LET local == goroutines[g]
           parts == Split(local.command)
           built == buildActionParameters(parts[1], parts[2][1], <<>>)
           order == AddNode(
                        NewOrderMessage(local.header, local.orderID, 0, clock),
                        NodeAddAction(
                            NewNode(generateNodeID(clock), 1, TRUE),
                            [NewAction(built.actionType, generateActionID(clock),
                                       BlockingTypeNone)
                                EXCEPT !.actionParameters = built.actionParameters]))
           instantActions ==
               InstantAddAction(
                   NewInstantActionsMessage(local.header, clock),
                   NewInstantAction("cancelOrder", generateActionID(clock),
                                    BlockingTypeHard))
           cancel == isCancelCommand(local.command)
       IN  \E okRobot \in BOOLEAN :
              LET sent == IF cancel
                          THEN Published("instantActions", instantActions, okRobot)
                          ELSE Published("order", order, okRobot)
              IN  IF okRobot
                  THEN /\ out' = Append(out, sent)
                       /\ Set(g, [local EXCEPT !.at = IF cancel THEN "delete"
                                                      ELSE "record"])
                  ELSE /\ \E ok \in BOOLEAN :
                             out' = out \o <<sent, sendPLCResponse(local.command,
                                                       PLCStatusFailed, ok)>>
                       /\ Set(g, Idle)
    /\ UNCHANGED <<activeOrders, canceledOrders, headerIDCounter, clock, pc, msg,
                   delivered, answered>>

\* handleDirectAction: h.activeOrders[orderID] = commandStr
RecordActiveOrder(g) ==
    /\ goroutines[g].at = "record"
    /\ activeOrders' = MapPut(activeOrders, goroutines[g].orderID,
                              goroutines[g].command)
    /\ Set(g, Idle)
    /\ UNCHANGED <<canceledOrders, headerIDCounter, clock, pc, msg, out, delivered,
                   answered>>

\* handleCancelCommand: delete(h.activeOrders, targetOrderID)
DeleteCancelTarget(g) ==
    /\ goroutines[g].at = "delete"
    /\ activeOrders' = MapDelete(activeOrders, goroutines[g].orderID)
    /\ Set(g, [goroutines[g] EXCEPT !.at = "put"])
    /\ UNCHANGED <<canceledOrders, headerIDCounter, clock, pc, msg, out, delivered,
                   answered>>

\* handleCancelCommand: h.canceledOrders[targetOrderID] = commandStr
PutCanceledOrder(g) ==
    /\ goroutines[g].at = "put"
    /\ canceledOrders' = MapPut(canceledOrders, goroutines[g].orderID,
                                goroutines[g].command)
    /\ Set(g, Idle)
    /\ UNCHANGED <<activeOrders, headerIDCounter, clock, pc, msg, out, delivered,
                   answered>>

\* HandleRobotState up to the lookup in canceledOrders, with
\* processCanceledOrderStates up to its response.
BeginRobotState(g) ==
    /\ goroutines[g].at = "idle"
    /\ delivered < MaxDelivered
    /\ delivered' = delivered + 1
    /\ \E report \in ConcurrentReports :
          LET orderID == report.orderId.val
              actionStates == report.actionStates.val
              local == [Idle EXCEPT !.callback = "HandleRobotState",
                                    !.orderID = orderID,
                                    !.actionStates = actionStates]
          IN  IF orderID \in DOMAIN canceledOrders
              THEN LET status == CanceledDecision(actionStates)
                   IN  IF status = <<>>
                       THEN out' = out /\ Set(g, Idle)
                       ELSE /\ \E ok \in BOOLEAN :
                                  out' = Append(out, sendPLCResponse(
                                             canceledOrders[orderID], status, ok))
                            /\ Set(g, [local EXCEPT !.at = "deleteCanceled"])
              ELSE out' = out /\ Set(g, [local EXCEPT !.at = "lookupActive"])
    /\ UNCHANGED <<activeOrders, canceledOrders, headerIDCounter, clock, pc, msg,
                   answered>>

\* HandleRobotState: the lookup in activeOrders, with processActionStates
\* up to its response.
LookupActiveOrder(g) ==
    /\ goroutines[g].at = "lookupActive"
    /\ LET local == goroutines[g]
           decision == ActiveDecision(local.actionStates)
       IN  IF local.orderID \notin DOMAIN activeOrders \/ decision.send = <<>>
           THEN /\ Set(g, Idle)
                /\ UNCHANGED <<out, answered>>
           ELSE /\ \E ok \in BOOLEAN :
                      out' = Append(out, sendPLCResponse(
                                 activeOrders[local.orderID], decision.send, ok))
                /\ IF decision.delete
                   THEN /\ Set(g, [local EXCEPT !.at = "deleteActive"])
                        /\ answered' = answered \cup {local.orderID}
                   ELSE /\ Set(g, Idle)
                        /\ answered' = answered
    /\ UNCHANGED <<activeOrders, canceledOrders, headerIDCounter, clock, pc, msg,
                   delivered>>

\* processActionStates: delete(h.activeOrders, orderID)
DeleteActiveEntry(g) ==
    /\ goroutines[g].at = "deleteActive"
    /\ activeOrders' = MapDelete(activeOrders, goroutines[g].orderID)
    /\ Set(g, Idle)
    /\ UNCHANGED <<canceledOrders, headerIDCounter, clock, pc, msg, out, delivered,
                   answered>>

\* processCanceledOrderStates: delete(h.canceledOrders, orderID)
DeleteCanceledEntry(g) ==
    /\ goroutines[g].at = "deleteCanceled"
    /\ canceledOrders' = MapDelete(canceledOrders, goroutines[g].orderID)
    /\ Set(g, Idle)
    /\ UNCHANGED <<activeOrders, headerIDCounter, clock, pc, msg, out, delivered,
                   answered>>

ConcurrentNext ==
    \E g \in Goroutines :
        \/ BeginPLCCommand(g)
        \/ LoadHeaderID(g)
        \/ StoreHeaderID(g)
        \/ ReturnHeaderID(g)
        \/ PublishToRobot(g)
        \/ RecordActiveOrder(g)
        \/ DeleteCancelTarget(g)
        \/ PutCanceledOrder(g)
        \/ BeginRobotState(g)
        \/ LookupActiveOrder(g)
        \/ DeleteActiveEntry(g)
        \/ DeleteCanceledEntry(g)

ConcurrentSpec == Init /\ [][ConcurrentNext]_vars


(***************************************************************************)
(* Vocabulary of the properties.                                           *)
(***************************************************************************)
\* A step in which the command callback, resp. the state callback, runs.
CommandStep == pc = "idle" /\ msg'.topic = "bridge/command"
StateStep == pc = "idle" /\ msg'.topic = "state"

\* The command the command callback works on: the payload without the
\* surrounding white space.
RECURSIVE Trimmed(_)
Trimmed(s) ==
    IF s = <<>> THEN s
    ELSE IF s[1] \in Whitespace THEN Trimmed(SubSeq(s, 2, Len(s)))
    ELSE IF s[Len(s)] \in Whitespace THEN Trimmed(SubSeq(s, 1, Len(s) - 1))
    ELSE s

\* The text before the first ':' of a command.
RECURSIVE BeforeFirstColon(_)
BeforeFirstColon(s) ==
    IF s = <<>> \/ Head(s) = ":" THEN <<>>
    ELSE <<Head(s)>> \o BeforeFirstColon(Tail(s))

EndsWith(s, a, b) == Len(s) >= 2 /\ s[Len(s) - 1] = a /\ s[Len(s)] = b
HasPair(s, a, b) == \E i \in 1..(Len(s) - 1) : s[i] = a /\ s[i + 1] = b

\* The texts published on the response topic, and the documents published
\* to the robot, in order.
ResponsesOf(published) ==
    LET r == SelectSeq(published, LAMBDA m : m.topic = "response")
    IN  [i \in 1..Len(r) |-> r[i].payload]
RobotPublishesOf(published) ==
    SelectSeq(published, LAMBDA m : m.topic \in {"order", "instantActions"})

\* A report the state callback looks up: a JSON object with a non-empty
\* string orderId.
Lookable(report) ==
    report.valid /\ report.orderId.kind = "string" /\ report.orderId.val # <<>>
HasList(report) == report.actionStates.kind = "array"

\* Whether some reported action has the given status.
Reported(actionStates, status) ==
    \E i \in 1..Len(actionStates) :
        /\ actionStates[i].isObject
        /\ actionStates[i].hasStatus
        /\ actionStates[i].actionStatus = status

\* The priority reduction of section 4.5: the letter of the verdict, <<>>
\* when there is none.
PriorityVerdict(actionStates) ==
    LET has(status) == Reported(actionStates, status)
    IN  IF has("FAILED") THEN <<"F">>
        ELSE IF has("FINISHED") /\ ~has("RUNNING") /\ ~has("INITIALIZING")
                /\ ~has("WAITING") THEN <<"S">>
        ELSE IF has("RUNNING") THEN <<"R">>
        ELSE IF has("INITIALIZING") THEN <<"I">>
        ELSE IF has("WAITING") THEN <<"W">>
        ELSE <<>>

\* A state report that is reduced as a report on an active order.
ActiveReportStep ==
    /\ StateStep
    /\ Lookable(msg'.report)
    /\ HasList(msg'.report)
    /\ msg'.report.orderId.val \in DOMAIN activeOrders
    /\ msg'.report.orderId.val \notin DOMAIN canceledOrders

\* A state report on an order in CanceledOrders.
CanceledReportStep ==
    /\ StateStep
    /\ Lookable(msg'.report)
    /\ HasList(msg'.report)
    /\ msg'.report.orderId.val \in DOMAIN canceledOrders

(***************************************************************************)
(* C1: in every reachable state no orderId is a key of both ActiveOrders   *)
(* and CanceledOrders.                                                     *)
(***************************************************************************)
C1_Disjoint == (DOMAIN activeOrders) \cap (DOMAIN canceledOrders) = {}

C3_VerdictIsPriorityReduction ==
    [][ActiveReportStep =>
        LET orderID == msg'.report.orderId.val
            verdict == PriorityVerdict(msg'.report.actionStates.val)
        IN  ResponsesOf(out') =
                IF verdict = <<>> THEN <<>>
                ELSE <<BeforeFirstColon(activeOrders[orderID]) \o <<":">> \o verdict>>]_vars

\* FINISHED together with RUNNING has been answered with Running.
C3_Witness ==
    /\ pc = "processActionStates"
    /\ Reported(msg.report.actionStates.val, "FINISHED")
    /\ Reported(msg.report.actionStates.val, "RUNNING")
    /\ ~Reported(msg.report.actionStates.val, "FAILED")
    /\ Len(out) = 1
    /\ out[1].payload[Len(out[1].payload)] = "R"

(***************************************************************************)
(* C4: for a report on an order in CanceledOrders the first action, in     *)
(* report order, whose status is FAILED or FINISHED decides: FAILED gives  *)
(* one Failed response, FINISHED one Success response, and in both cases   *)
(* the entry leaves CanceledOrders, whatever the later actions report.     *)
(***************************************************************************)
\* The positions of the actions reporting FAILED or FINISHED.
TerminalPositions(actionStates) ==
    {i \in 1..Len(actionStates) :
        /\ actionStates[i].isObject
        /\ actionStates[i].hasStatus
        /\ actionStates[i].actionStatus \in {"FAILED", "FINISHED"}}

FirstTerminal(actionStates) ==
    CHOOSE i \in TerminalPositions(actionStates) :
        \A j \in TerminalPositions(actionStates) : i <= j

C4_FirstTerminalDecides ==
    [][(CanceledReportStep /\ TerminalPositions(msg'.report.actionStates.val) # {}) =>
        LET orderID == msg'.report.orderId.val
            actionStates == msg'.report.actionStates.val
            letter == IF actionStates[FirstTerminal(actionStates)].actionStatus = "FAILED"
                      THEN <<"F">> ELSE <<"S">>
        IN  /\ ResponsesOf(out') =
                <<BeforeFirstColon(canceledOrders[orderID]) \o <<":">> \o letter>>
            /\ orderID \notin DOMAIN canceledOrders'
            /\ \A other \in DOMAIN canceledOrders \ {orderID} :
                  /\ other \in DOMAIN canceledOrders'
                  /\ canceledOrders'[other] = canceledOrders[other]]_vars

\* A canceled order was answered with Success by a report whose FINISHED
\* comes before a FAILED.
C4_Witness ==
    /\ pc = "processCanceledOrderStates"
    /\ Len(msg.report.actionStates.val) >= 2
    /\ msg.report.actionStates.val[1] = ActionState("FINISHED")
    /\ msg.report.actionStates.val[2] = ActionState("FAILED")
    /\ ResponsesOf(out) = << <<"P", ":", "S">> >>
    /\ msg.report.orderId.val \notin DOMAIN canceledOrders

(***************************************************************************)
(* C5: a state report is looked up in CanceledOrders first and only        *)
(* otherwise in ActiveOrders; a report whose orderId is in neither map     *)
(* publishes nothing and leaves both maps and the header counter as they   *)
(* are.                                                                    *)
(***************************************************************************)
C5_DispatchCanceledFirst ==
    [][(StateStep /\ Lookable(msg'.report) /\ HasList(msg'.report)) =>
        LET orderID == msg'.report.orderId.val
        IN  /\ orderID \in DOMAIN canceledOrders =>
                /\ pc' = "processCanceledOrderStates"
                /\ activeOrders' = activeOrders
            /\ (orderID \notin DOMAIN canceledOrders /\ orderID \in DOMAIN activeOrders) =>
                /\ pc' = "processActionStates"
                /\ canceledOrders' = canceledOrders
            /\ (orderID \notin DOMAIN canceledOrders /\ orderID \notin DOMAIN activeOrders) =>
                /\ out' = <<>>
                /\ activeOrders' = activeOrders
                /\ canceledOrders' = canceledOrders
                /\ headerIDCounter' = headerIDCounter]_vars

\* A report with statuses for an orderId in neither map has been dropped
\* while other orders were tracked in both maps.
C5_Witness ==
    /\ pc = "HandleRobotState"
    /\ Lookable(msg.report)
    /\ msg.report.actionStates = Array(<<ActionState("FAILED")>>)
    /\ msg.report.orderId.val \notin (DOMAIN activeOrders) \cup (DOMAIN canceledOrders)
    /\ activeOrders # EmptyMap
    /\ out = <<>>


(***************************************************************************)
(* C6: a cancel with base B that finds an active order with base B and     *)
(* whose instant-action publish succeeds publishes exactly one cancelOrder *)
(* instant action, moves that order's entry from ActiveOrders to           *)
(* CanceledOrders with the cancel command as value and publishes no        *)
(* response; a later report for that orderId then answers 'B:F' or 'B:S'   *)
(* and removes the entry from CanceledOrders.                              *)
(***************************************************************************)
\* The command callback runs on a cancel command that has a target.
CancelWithTargetStep ==
    /\ CommandStep
    /\ EndsWith(Trimmed(msg'.payload), ":", "C")
    /\ \E orderID \in DOMAIN activeOrders :
          BeforeFirstColon(activeOrders[orderID]) = BeforeFirstColon(Trimmed(msg'.payload))

\* What an accepted cancel does.
CancelAccepted ==
    LET command == Trimmed(msg'.payload)
        robot == RobotPublishesOf(out')
    IN  /\ Len(robot) = 1
        /\ robot[1].topic = "instantActions"
        /\ Len(robot[1].payload.actions) = 1
        /\ robot[1].payload.actions[1].actionType = "cancelOrder"
        /\ robot[1].ok =>
            /\ ResponsesOf(out') = <<>>
            /\ \E orderID \in DOMAIN activeOrders :
                /\ BeforeFirstColon(activeOrders[orderID]) = BeforeFirstColon(command)
                /\ DOMAIN activeOrders' = (DOMAIN activeOrders) \ {orderID}
                /\ \A other \in DOMAIN activeOrders' :
                      activeOrders'[other] = activeOrders[other]
                /\ DOMAIN canceledOrders' = (DOMAIN canceledOrders) \cup {orderID}
                /\ canceledOrders'[orderID] = command
                /\ \A other \in (DOMAIN canceledOrders) \ {orderID} :
                      canceledOrders'[other] = canceledOrders[other]

\* The claim as it stands: a report for the canceled order that contains
\* FAILED is answered 'B:F', one that contains FINISHED 'B:S'.
C6_ReportContainingDecides ==
    [][/\ CancelWithTargetStep => CancelAccepted
       /\ CanceledReportStep =>
            LET orderID == msg'.report.orderId.val
                actionStates == msg'.report.actionStates.val
                base == BeforeFirstColon(canceledOrders[orderID])
            IN  /\ Reported(actionStates, "FAILED") =>
                    /\ ResponsesOf(out') = <<base \o <<":", "F">> >>
                    /\ orderID \notin DOMAIN canceledOrders'
                /\ Reported(actionStates, "FINISHED") =>
                    /\ ResponsesOf(out') = <<base \o <<":", "S">> >>
                    /\ orderID \notin DOMAIN canceledOrders']_vars

\* C6 as amended: the report is answered 'B:F' when the first of its
\* actions reporting FAILED or FINISHED reports FAILED, 'B:S' when it
\* reports FINISHED, B being the base of the cancel command stored for the
\* orderId.
C6_CancelThenFirstTerminalAnswers ==
    [][/\ CancelWithTargetStep => CancelAccepted
       /\ (CanceledReportStep /\ TerminalPositions(msg'.report.actionStates.val) # {}) =>
            LET orderID == msg'.report.orderId.val
                actionStates == msg'.report.actionStates.val
                base == BeforeFirstColon(canceledOrders[orderID])
                first == actionStates[FirstTerminal(actionStates)].actionStatus
            IN  /\ first = "FAILED" => ResponsesOf(out') = <<base \o <<":", "F">> >>
                /\ first = "FINISHED" => ResponsesOf(out') = <<base \o <<":", "S">> >>
                /\ orderID \notin DOMAIN canceledOrders']_vars

\* The order of "P:I" was canceled by "P:C" and a later report with FAILED
\* has been answered "P:F".
C6_Witness ==
    /\ pc = "processCanceledOrderStates"
    /\ msg.report.actionStates = Array(<<ActionState("RUNNING"), ActionState("FAILED")>>)
    /\ ResponsesOf(out) = << <<"P", ":", "F">> >>
    /\ msg.report.orderId.val \notin DOMAIN canceledOrders
    /\ headerIDCounter = 2

(***************************************************************************)
(* C7: a cancel whose base is the base of no entry of ActiveOrders         *)
(* publishes exactly one response '<base>:F' and no instant action, and    *)
(* leaves ActiveOrders, CanceledOrders and the header counter unchanged.   *)
(***************************************************************************)
C7_CancelWithoutTargetFails ==
    [][(/\ CommandStep
        /\ EndsWith(Trimmed(msg'.payload), ":", "C")
        /\ \A orderID \in DOMAIN activeOrders :
              BeforeFirstColon(activeOrders[orderID]) # BeforeFirstColon(Trimmed(msg'.payload)))
       =>
        /\ ResponsesOf(out') = <<BeforeFirstColon(Trimmed(msg'.payload)) \o <<":", "F">> >>
        /\ RobotPublishesOf(out') = <<>>
        /\ activeOrders' = activeOrders
        /\ canceledOrders' = canceledOrders
        /\ headerIDCounter' = headerIDCounter]_vars

\* "P:C" has been refused while the only active order was that of "Q:I".
C7_Witness ==
    /\ pc = "handleCancelCommand"
    /\ Trimmed(msg.payload) = <<"P", ":", "C">>
    /\ DOMAIN activeOrders # {}
    /\ \A orderID \in DOMAIN activeOrders : activeOrders[orderID] = <<"Q", ":", "T", ":", "L">>
    /\ ResponsesOf(out) = << <<"P", ":", "F">> >>

(***************************************************************************)
(* C8: when the publish to the robot fails while a command is handled,     *)
(* one Failed response for the command is published and the command        *)
(* leaves no entry behind: ActiveOrders and CanceledOrders are as before.  *)
(***************************************************************************)
C8_FailedPublishLeavesNoEntry ==
    [][(/\ CommandStep
        /\ \E i \in 1..Len(out') :
              out'[i].topic \in {"order", "instantActions"} /\ ~out'[i].ok)
       =>
        /\ ResponsesOf(out') = <<BeforeFirstColon(Trimmed(msg'.payload)) \o <<":", "F">> >>
        /\ Len(RobotPublishesOf(out')) = 1
        /\ activeOrders' = activeOrders
        /\ canceledOrders' = canceledOrders]_vars

\* The order of "P:I" could not be published and nothing is tracked.
C8_Witness ==
    /\ pc = "handleDirectAction"
    /\ Len(out) = 2
    /\ out[1].topic = "order"
    /\ ~out[1].ok
    /\ ResponsesOf(out) = << <<"P", ":", "F">> >>
    /\ activeOrders = EmptyMap
    /\ canceledOrders = EmptyMap

(***************************************************************************)
(* C9: a command that neither ends with ':C' nor ends with ':I' nor        *)
(* contains ':T' gets exactly one response '<text before first colon>:F',  *)
(* publishes nothing to the robot and leaves ActiveOrders, CanceledOrders  *)
(* and the header counter unchanged.                                       *)
(***************************************************************************)
C9_InvalidCommandRejected ==
    [][(/\ CommandStep
        /\ ~EndsWith(Trimmed(msg'.payload), ":", "C")
        /\ ~EndsWith(Trimmed(msg'.payload), ":", "I")
        /\ ~HasPair(Trimmed(msg'.payload), ":", "T"))
       =>
        /\ ResponsesOf(out') = <<BeforeFirstColon(Trimmed(msg'.payload)) \o <<":", "F">> >>
        /\ RobotPublishesOf(out') = <<>>
        /\ activeOrders' = activeOrders
        /\ canceledOrders' = canceledOrders
        /\ headerIDCounter' = headerIDCounter]_vars

\* "P:X" has been rejected while an order was active.
C9_Witness ==
    /\ pc = "HandlePLCCommand"
    /\ msg.payload = <<"P", ":", "X">>
    /\ ResponsesOf(out) = << <<"P", ":", "F">> >>
    /\ activeOrders # EmptyMap

(***************************************************************************)
(* C10: for every command the command callback returns normally, having    *)
(* either published a message to the robot and updated the tracker or      *)
(* published exactly one Failed response.                                  *)
(***************************************************************************)
C10_CommandCallbackReturns ==
    /\ pc # "panic"
    /\ msg.topic = "bridge/command" =>
        \/ /\ Len(out) = 1
           /\ out[1].topic \in {"order", "instantActions"}
           /\ out[1].ok
        \/ ResponsesOf(out) = <<BeforeFirstColon(Trimmed(msg.payload)) \o <<":", "F">> >>

(***************************************************************************)
(* More vocabulary: the commands the classifier takes for direct actions   *)
(* and the action-type character, the first character of the text between *)
(* the first and the second ':' (<<>> when that text is empty).            *)
(***************************************************************************)
AcceptedAsDirectAction(s) ==
    /\ ~EndsWith(s, ":", "C")
    /\ EndsWith(s, ":", "I") \/ HasPair(s, ":", "T")

TypeChar(s) ==
    LET i == Len(BeforeFirstColon(s)) + 2
    IN  IF i <= Len(s) /\ s[i] # ":" THEN <<s[i]>> ELSE <<>>

\* The command callback got as far as the order builder.
BuilderStep ==
    /\ CommandStep
    /\ AcceptedAsDirectAction(Trimmed(msg'.payload))
    /\ pc' = "handleDirectAction"

(***************************************************************************)
(* C11: for every command the classifier accepts as a direct action, the   *)
(* action-type character handed to the order builder is 'I' or 'T', and    *)
(* the builder's unsupported-type branch (no order, one Failed response)   *)
(* is never taken.                                                         *)
(***************************************************************************)
C11_TypeCharIsIOrT ==
    [][BuilderStep =>
        /\ TypeChar(Trimmed(msg'.payload)) \in {<<"I">>, <<"T">>}
        /\ RobotPublishesOf(out') # <<>>]_vars

(***************************************************************************)
(* C11 as it holds: when the order builder is handed the action-type       *)
(* character of an accepted command, either the character is 'I' or 'T'    *)
(* and one order is built and handed to the publisher, or it is another    *)
(* character, the unsupported-type branch is taken, and the command gets   *)
(* exactly one response '<base>:F' while nothing is published to the       *)
(* robot and ActiveOrders, CanceledOrders and the header counter stay as   *)
(* they are.                                                               *)
(***************************************************************************)
C11_UnsupportedTypeAnsweredFailed ==
    [][BuilderStep =>
        IF TypeChar(Trimmed(msg'.payload)) \in {<<"I">>, <<"T">>}
        THEN /\ Len(RobotPublishesOf(out')) = 1
             /\ out'[1].topic = "order"
        ELSE /\ ResponsesOf(out') =
                    <<BeforeFirstColon(Trimmed(msg'.payload)) \o <<":", "F">> >>
             /\ RobotPublishesOf(out') = <<>>
             /\ activeOrders' = activeOrders
             /\ canceledOrders' = canceledOrders
             /\ headerIDCounter' = headerIDCounter]_vars

\* "P:X:I" was accepted, reached the builder with type 'X' and was answered
\* with Failed.
C11_Witness ==
    /\ pc = "handleDirectAction"
    /\ msg.payload = <<"P", ":", "X", ":", "I">>
    /\ ResponsesOf(out) = << <<"P", ":", "F">> >>
    /\ RobotPublishesOf(out) = <<>>

(***************************************************************************)
(* Vocabulary of the properties of concurrent callbacks.                   *)
(***************************************************************************)
\* The header ids of the messages the robot was sent, in the order of the
\* Publish calls that succeeded.
SentHeaderIds ==
    LET sent == SelectSeq(out, LAMBDA m : m.topic \in {"order", "instantActions"}
                                          /\ m.ok)
    IN  [i \in 1..Len(sent) |-> sent[i].payload.headerId]

\* Goroutine g runs a cancel that has resolved its target.
CancelInFlight(g) ==
    /\ goroutines[g].callback = "HandlePLCCommand"
    /\ EndsWith(goroutines[g].command, ":", "C")
    /\ goroutines[g].at # "idle"

\* Goroutine g has accessed the shared state and is about to access it
\* again: it is between its first and its last access.
BetweenAccesses(g) ==
    \/ goroutines[g].at \in {"store", "record", "delete", "put", "lookupActive",
                              "deleteActive", "deleteCanceled"}
    \/ CancelInFlight(g) /\ goroutines[g].at = "load"

\* Goroutine g runs a state report and has answered it with a final status.
AnsweredFinal(g) == goroutines[g].at \in {"deleteActive", "deleteCanceled"}

(***************************************************************************)
(* C12: the headerId values of the messages sent to the robot, orders and  *)
(* cancel instant actions together, are strictly increasing in send order  *)
(* and never repeat, also when callbacks run concurrently.                 *)
(***************************************************************************)
C12_HeaderIdsStrictlyIncreasing ==
    \A i, j \in 1..Len(SentHeaderIds) :
        i < j => SentHeaderIds[i] < SentHeaderIds[j]

(***************************************************************************)
(* C12, callbacks one at a time: every message handed to the publisher     *)
(* carries the counter's value plus one, which is the counter's new value, *)
(* and no step lowers the counter.                                         *)
(***************************************************************************)
C12_SequentialHeaderIds ==
    [][/\ headerIDCounter' >= headerIDCounter
       /\ CommandStep =>
            /\ Len(RobotPublishesOf(out')) <= 1
            /\ \A i \in 1..Len(RobotPublishesOf(out')) :
                  /\ RobotPublishesOf(out')[i].payload.headerId = headerIDCounter + 1
                  /\ headerIDCounter' = headerIDCounter + 1]_vars

(***************************************************************************)
(* C13: all accesses to ActiveOrders, CanceledOrders and the header        *)
(* counter are in one mutual-exclusion domain: no two concurrent callbacks *)
(* are at the same time between their first and their last access.         *)
(***************************************************************************)
C13_MutualExclusion ==
    \A g1, g2 \in Goroutines :
        BetweenAccesses(g1) /\ BetweenAccesses(g2) => g1 = g2

(***************************************************************************)
(* C14: a cancel's move of an entry and a verdict's removal are atomic     *)
(* with respect to concurrent reports on the same order: no report on X    *)
(* is processed between the cancel's target resolution and its map         *)
(* update; no two concurrent reports on X both answer with a final status; *)
(* X is never in CanceledOrders once a final status for X was answered     *)
(* through the active path.                                                *)
(***************************************************************************)
C14_NoReportInsideCancel ==
    \A g1, g2 \in Goroutines :
        ~ /\ CancelInFlight(g1)
          /\ goroutines[g2].callback = "HandleRobotState"
          /\ goroutines[g2].orderID = goroutines[g1].orderID

C14_NoDoubleAnswer ==
    \A g1, g2 \in Goroutines :
        (/\ AnsweredFinal(g1)
         /\ AnsweredFinal(g2)
         /\ goroutines[g1].orderID = goroutines[g2].orderID) => g1 = g2

C14_NoCanceledAfterActiveAnswer ==
    \A orderID \in DOMAIN canceledOrders : orderID \notin answered

C14_CancelAtomicWithReports ==
    /\ C14_NoReportInsideCancel
    /\ C14_NoDoubleAnswer
    /\ C14_NoCanceledAfterActiveAnswer

(***************************************************************************)
(* More vocabulary: the orders a step published successfully, and the      *)
(* orderIDs tracked in either map.  Every tracked orderID is the id of an  *)
(* order published in an earlier step.                                     *)
(***************************************************************************)
OrdersPublished(published) ==
    SelectSeq(published, LAMBDA m : m.topic = "order" /\ m.ok)

Tracked == (DOMAIN activeOrders) \cup (DOMAIN canceledOrders)

(***************************************************************************)
(* C15: an orderId generated for a published order is never generated      *)
(* again for a later order, the clock being a non-decreasing value read at *)
(* each generation: no step publishes an order under an orderId that is    *)
(* still tracked for an earlier order.                                     *)
(***************************************************************************)
C15_OrderIdNeverReused ==
    [][\A i \in 1..Len(OrdersPublished(out')) :
          OrdersPublished(out')[i].payload.orderId \notin Tracked]_vars

(***************************************************************************)
(* C16: each key of ActiveOrders and of CanceledOrders is the orderId of   *)
(* exactly one successfully published order, and the value in ActiveOrders *)
(* is the command that produced it: a key of ActiveOrders after a step is  *)
(* either a key from before, with its command, under which the step        *)
(* published no further order, or a key tracked in neither map before,     *)
(* under which the step published exactly one order, for the command it    *)
(* handled; a key of CanceledOrders is a key from before or was a key of   *)
(* ActiveOrders.                                                           *)
(***************************************************************************)
C16_EntryIsOnePublishedOrder ==
    [][/\ \A orderID \in DOMAIN activeOrders' :
            LET under == SelectSeq(OrdersPublished(out'),
                             LAMBDA m : m.payload.orderId = orderID)
            IN  IF orderID \in DOMAIN activeOrders
                THEN /\ activeOrders'[orderID] = activeOrders[orderID]
                     /\ under = <<>>
                ELSE /\ orderID \notin DOMAIN canceledOrders
                     /\ Len(under) = 1
                     /\ activeOrders'[orderID] = Trimmed(msg'.payload)
       /\ \A orderID \in DOMAIN canceledOrders' :
            orderID \in (DOMAIN canceledOrders) \cup (DOMAIN activeOrders)]_vars

(***************************************************************************)
(* More vocabulary: a command of the form 'B:I', and a report whose        *)
(* action statuses are all FINISHED.                                       *)
(***************************************************************************)
IsInference(command) == command = BeforeFirstColon(command) \o <<":", "I">>

AllFinished(actionStates) ==
    /\ actionStates # <<>>
    /\ \A i \in 1..Len(actionStates) :
          /\ actionStates[i].isObject
          /\ actionStates[i].hasStatus
          /\ actionStates[i].actionStatus = "FINISHED"

(***************************************************************************)
(* C17: a command 'B:I' whose publish succeeds publishes one order with    *)
(* the single parameter inference_name = B and records it in ActiveOrders  *)
(* under the order's id; a state report for the orderId of an order so     *)
(* recorded whose action statuses are all FINISHED emits exactly the       *)
(* response 'B:S' and removes the entry from ActiveOrders.                 *)
(***************************************************************************)
C17_InferenceEndToEnd ==
    [][/\ (/\ CommandStep
           /\ IsInference(Trimmed(msg'.payload))
           /\ OrdersPublished(out') # <<>>)
          =>
           LET order == out'[1].payload
           IN  /\ Len(out') = 1
               /\ Len(order.nodes) = 1
               /\ Len(order.nodes[1].actions) = 1
               /\ order.nodes[1].actions[1].actionParameters =
                      <<[key |-> "inference_name",
                         value |-> BeforeFirstColon(Trimmed(msg'.payload))]>>
               /\ order.orderId \in DOMAIN activeOrders'
               /\ activeOrders'[order.orderId] = Trimmed(msg'.payload)
       /\ (/\ StateStep
           /\ Lookable(msg'.report)
           /\ HasList(msg'.report)
           /\ AllFinished(msg'.report.actionStates.val)
           /\ msg'.report.orderId.val \in DOMAIN activeOrders
           /\ IsInference(activeOrders[msg'.report.orderId.val]))
          =>
           LET orderID == msg'.report.orderId.val
           IN  /\ ResponsesOf(out') =
                      <<BeforeFirstColon(activeOrders[orderID]) \o <<":", "S">> >>
               /\ orderID \notin DOMAIN activeOrders']_vars

(***************************************************************************)
(* More vocabulary: the verdict of a report by name, for an active order   *)
(* (the priority reduction) and for a canceled order (the first FAILED or  *)
(* FINISHED in report order), and the letter of a verdict.                 *)
(***************************************************************************)
ActiveVerdict(actionStates) ==
    LET has(status) == Reported(actionStates, status)
    IN  IF has("FAILED") THEN "Failed"
        ELSE IF has("FINISHED") /\ ~has("RUNNING") /\ ~has("INITIALIZING")
                /\ ~has("WAITING") THEN "Success"
        ELSE IF has("RUNNING") THEN "Running"
        ELSE IF has("INITIALIZING") THEN "Initializing"
        ELSE IF has("WAITING") THEN "Waiting"
        ELSE "none"

CanceledVerdict(actionStates) ==
    IF TerminalPositions(actionStates) = {} THEN "none"
    ELSE IF actionStates[FirstTerminal(actionStates)].actionStatus = "FAILED"
    THEN "Failed"
    ELSE "Success"

Letter(verdict) ==
    CASE verdict = "Waiting" -> "W"
      [] verdict = "Initializing" -> "I"
      [] verdict = "Running" -> "R"
      [] verdict = "Success" -> "S"
      [] verdict = "Failed" -> "F"

(***************************************************************************)
(* C18: every verdict produces exactly one publish, of                     *)
(* '<baseCommand>:<letter>' with Waiting -> W, Initializing -> I,          *)
(* Running -> R, Success -> S, Failed -> F, baseCommand being the text     *)
(* before the first ':' of the tracked command; a report without verdict   *)
(* produces none.  Identical verdicts are not deduplicated: a report with  *)
(* verdict Waiting, Initializing or Running leaves the maps, the header    *)
(* counter and the clock as they were, so the same report delivered again  *)
(* is answered again, n reports with verdict Running by n ':R' responses.  *)
(***************************************************************************)
C18_OneResponsePerVerdict ==
    [][(/\ StateStep
        /\ Lookable(msg'.report)
        /\ HasList(msg'.report)
        /\ msg'.report.orderId.val \in Tracked)
       =>
        LET orderID == msg'.report.orderId.val
            actionStates == msg'.report.actionStates.val
            canceled == orderID \in DOMAIN canceledOrders
            command == IF canceled THEN canceledOrders[orderID]
                       ELSE activeOrders[orderID]
            verdict == IF canceled THEN CanceledVerdict(actionStates)
                       ELSE ActiveVerdict(actionStates)
        IN  IF verdict = "none"
            THEN out' = <<>>
            ELSE /\ Len(out') = 1
                 /\ out'[1].topic = "response"
                 /\ out'[1].payload =
                        BeforeFirstColon(command) \o <<":", Letter(verdict)>>
                 /\ verdict \in {"Waiting", "Initializing", "Running"} =>
                        /\ activeOrders' = activeOrders
                        /\ canceledOrders' = canceledOrders
                        /\ headerIDCounter' = headerIDCounter
                        /\ clock' = clock]_vars

\* A report with verdict Running on the order of "Q:T:L" has been answered
\* with 'Q:R' and the order is tracked as before.
C18_Witness ==
    /\ pc = "processActionStates"
    /\ ActiveVerdict(msg.report.actionStates.val) = "Running"
    /\ out = <<[topic |-> "response", payload |-> <<"Q", ":", "R">>, ok |-> TRUE]>>
    /\ msg.report.orderId.val \in DOMAIN activeOrders
    /\ activeOrders[msg.report.orderId.val] = <<"Q", ":", "T", ":", "L">>

(***************************************************************************)
(* More vocabulary: what a report on an active order did, read off the     *)
(* state processActionStates leaves: the letter it answered with (<<>>     *)
(* when it did not answer) and whether the order's entry is gone; the      *)
(* same for the decision on a list of action states; the rearrangements of *)
(* a list; the list without its unrecognized statuses.                     *)
(***************************************************************************)
Effect(letter, removed) == [letter |-> letter, removed |-> removed]

ObservedEffect ==
    Effect(IF out = <<>> THEN <<>>
           ELSE <<out[1].payload[Len(out[1].payload)]>>,
           msg.report.orderId.val \notin DOMAIN activeOrders)

DecidedEffect(actionStates) ==
    Effect(ActiveDecision(actionStates).send, ActiveDecision(actionStates).delete)

Rearrangements(l) ==
    {[i \in 1..Len(l) |-> l[q[i]]] :
        q \in {f \in [1..Len(l) -> 1..Len(l)] :
                  \A i, j \in 1..Len(l) : f[i] = f[j] => i = j}}

Unrecognized(actionState) ==
    /\ actionState.isObject
    /\ actionState.hasStatus
    /\ actionState.actionStatus \notin
          {"WAITING", "INITIALIZING", "RUNNING", "FINISHED", "FAILED"}

WithoutUnrecognized(l) == SelectSeq(l, LAMBDA actionState : ~Unrecognized(actionState))

(***************************************************************************)
(* C19: the verdict for an active order is a function of the multiset of   *)
(* the reported action statuses: what a report did, the response and the   *)
(* removal of the entry, is what the decision on every rearrangement of    *)
(* its list of statuses gives.                                             *)
(***************************************************************************)
C19_VerdictOfMultiset ==
    pc = "processActionStates" =>
        \A rearranged \in Rearrangements(msg.report.actionStates.val) :
            ObservedEffect = DecidedEffect(rearranged)

\* A report FINISHED, FAILED on an active order has been answered with
\* Failed, as FAILED, FINISHED is.
C19_Witness ==
    /\ pc = "processActionStates"
    /\ msg.report.actionStates.val = <<ActionState("FINISHED"), ActionState("FAILED")>>
    /\ ObservedEffect = Effect(<<"F">>, TRUE)

(***************************************************************************)
(* C20: action statuses outside WAITING, INITIALIZING, RUNNING, FINISHED,  *)
(* FAILED are ignored by the aggregation for an active order: what a       *)
(* report did is what the decision on the report without its unrecognized  *)
(* statuses gives, and a report with only unrecognized statuses or with no *)
(* actions emits no response and keeps the entry.                          *)
(***************************************************************************)
C20_UnrecognizedIgnored ==
    pc = "processActionStates" =>
        LET actionStates == msg.report.actionStates.val
        IN  /\ ObservedEffect = DecidedEffect(WithoutUnrecognized(actionStates))
            /\ WithoutUnrecognized(actionStates) = <<>> =>
                  /\ out = <<>>
                  /\ msg.report.orderId.val \in DOMAIN activeOrders

\* A report with an unrecognized status and FINISHED has been answered with
\* Success and removed the entry, as FINISHED alone does.
C20_Witness ==
    /\ pc = "processActionStates"
    /\ msg.report.actionStates.val = <<ActionState("PAUSED"), ActionState("FINISHED")>>
    /\ ObservedEffect = Effect(<<"S">>, TRUE)

\* A report with only an unrecognized status has left the order as it was,
\* unanswered.
C20_WitnessOnlyUnrecognized ==
    /\ pc = "processActionStates"
    /\ msg.report.actionStates.val = <<ActionState("PAUSED")>>
    /\ out = <<>>
    /\ msg.report.orderId.val \in DOMAIN activeOrders

(***************************************************************************)
(* More vocabulary: a malformed state payload: not a JSON object, orderId  *)
(* missing, not a string or empty, or actionStates missing or not an       *)
(* array.                                                                  *)
(***************************************************************************)
Malformed(report) == ~Lookable(report) \/ ~HasList(report)

(***************************************************************************)
(* C21: a malformed state payload is dropped: no PLC response, nothing     *)
(* published at all, and ActiveOrders and CanceledOrders unchanged, even   *)
(* when the orderId is tracked.                                            *)
(***************************************************************************)
C21_MalformedReportDropped ==
    [][(StateStep /\ Malformed(msg'.report)) =>
        /\ out' = <<>>
        /\ activeOrders' = activeOrders
        /\ canceledOrders' = canceledOrders]_vars

\* A report on an active order whose actionStates is not an array has been
\* dropped.
C21_Witness ==
    /\ pc = "HandleRobotState"
    /\ Lookable(msg.report)
    /\ msg.report.actionStates.kind = "number"
    /\ msg.report.orderId.val \in DOMAIN activeOrders
    /\ out = <<>>


(***************************************************************************)
(* More vocabulary: the fields of a command, the valid direct-action       *)
(* commands B:I and B:T[:A], the arm an arm code stands for, and the       *)
(* number a hexadecimal identifier denotes.                                *)
(***************************************************************************)
AfterFirstColon(s) == SubSeq(s, Len(BeforeFirstColon(s)) + 2, Len(s))

ActionTypeField(s) == BeforeFirstColon(AfterFirstColon(s))

ArmCode(s) == BeforeFirstColon(AfterFirstColon(AfterFirstColon(s)))

ValidDirectAction(s) ==
    /\ ~EndsWith(s, ":", "C")
    /\ IsInference(s) \/ ActionTypeField(s) = <<"T">>

ResolvedArm(code) == IF code = <<"L">> THEN "left" ELSE "right"

DigitValue(d) == (CHOOSE i \in 1..16 : HexDigits[i] = d) - 1

RECURSIVE HexValue(_)
HexValue(s) ==
    IF s = <<>> THEN 0
    ELSE 16 * HexValue(SubSeq(s, 1, Len(s) - 1)) + DigitValue(s[Len(s)])

OrdersIn(published) == SelectSeq(published, LAMBDA m : m.topic = "order")

(***************************************************************************)
(* C22: for every valid direct-action command B:I and B:T[:A] the order    *)
(* handed to the publisher has exactly one node, with sequenceId 1 and     *)
(* released, holding exactly one action with blockingType NONE; the order  *)
(* has orderUpdateId 0 and no edges; the action parameters are             *)
(* [inference_name = B] for type I and [trajectory_name = B, arm = the     *)
(* arm A stands for] for type T.                                           *)
(***************************************************************************)
C22_OrderStructure ==
    [][(CommandStep /\ ValidDirectAction(Trimmed(msg'.payload))) =>
        LET command == Trimmed(msg'.payload)
            orders == OrdersIn(out')
            order == orders[1].payload
            node == order.nodes[1]
            action == node.actions[1]
        IN  /\ Len(orders) = 1
            /\ Len(order.nodes) = 1
            /\ node.sequenceId = 1
            /\ node.released
            /\ Len(node.actions) = 1
            /\ action.blockingType = "NONE"
            /\ order.orderUpdateId = 0
            /\ order.edges = <<>>
            /\ action.actionParameters =
                  IF IsInference(command)
                  THEN <<[key |-> "inference_name", value |-> BeforeFirstColon(command)]>>
                  ELSE <<[key |-> "trajectory_name", value |-> BeforeFirstColon(command)],
                         [key |-> "arm", value |-> ResolvedArm(ArmCode(command))]>>]_vars

\* The command P:T:L has published an order whose single action follows the
\* trajectory P with the left arm.
C22_Witness ==
    /\ pc = "handleDirectAction"
    /\ msg.payload = <<"P", ":", "T", ":", "L">>
    /\ Len(out) = 1
    /\ out[1].topic = "order"
    /\ out[1].ok
    /\ Len(out[1].payload.nodes) = 1
    /\ out[1].payload.nodes[1].actions[1].actionParameters =
          <<[key |-> "trajectory_name", value |-> <<"P">>],
            [key |-> "arm", value |-> "left"]>>

(***************************************************************************)
(* C23: arm resolution is total: a trajectory command with the arm code L  *)
(* is built for the left arm and one with any other arm code (R, none,     *)
(* empty, unrecognized) for the right arm; no arm code is answered with    *)
(* an error: the order is published and a Failed response follows only a   *)
(* failed publish.                                                         *)
(***************************************************************************)
C23_ArmResolutionTotal ==
    [][(/\ CommandStep
        /\ ~EndsWith(Trimmed(msg'.payload), ":", "C")
        /\ ActionTypeField(Trimmed(msg'.payload)) = <<"T">>)
       =>
        LET code == ArmCode(Trimmed(msg'.payload))
            orders == OrdersIn(out')
            parameters == orders[1].payload.nodes[1].actions[1].actionParameters
        IN  /\ pc' = "handleDirectAction"
            /\ Len(orders) = 1
            /\ \E i \in 1..Len(parameters) :
                  /\ parameters[i].key = "arm"
                  /\ parameters[i].value = (IF code = <<"L">> THEN "left" ELSE "right")
            /\ \A i \in 1..Len(parameters) :
                  parameters[i].key = "arm" => parameters[i].value \in {"left", "right"}
            /\ orders[1].ok => ResponsesOf(out') = <<>>]_vars

\* The command P:T:Z, with an unrecognized arm code, has published an order
\* for the right arm and has not been answered.
C23_Witness ==
    /\ pc = "handleDirectAction"
    /\ msg.payload = <<"P", ":", "T", ":", "Z">>
    /\ Len(out) = 1
    /\ out[1].topic = "order"
    /\ out[1].ok
    /\ out[1].payload.nodes[1].actions[1].actionParameters[2] =
          [key |-> "arm", value |-> "right"]

\* The command "P:T:", with an empty arm code, likewise.
C23_WitnessEmptyCode ==
    /\ pc = "handleDirectAction"
    /\ msg.payload = <<"P", ":", "T", ":">>
    /\ Len(out) = 1
    /\ out[1].topic = "order"
    /\ out[1].ok
    /\ out[1].payload.nodes[1].actions[1].actionParameters[2] =
          [key |-> "arm", value |-> "right"]


(***************************************************************************)
(* C30: within one order construction, the clock not going back between    *)
(* the three reads, the generated identifiers satisfy orderId < nodeId <   *)
(* actionId as numbers and so are pairwise distinct.                       *)
(***************************************************************************)
C30_IdsIncreaseWithinOrder ==
    \A i \in 1..Len(out) :
        out[i].topic = "order" =>
            LET order == out[i].payload
                orderId == HexValue(order.orderId)
                nodeId == HexValue(order.nodes[1].nodeId)
                actionId == HexValue(order.nodes[1].actions[1].actionId)
            IN  /\ orderId < nodeId
                /\ nodeId < actionId
                /\ Cardinality({order.orderId, order.nodes[1].nodeId,
                                order.nodes[1].actions[1].actionId}) = 3

\* An order built while the clock stood still: the identifiers are one
\* apart.
C30_Witness ==
    /\ pc = "handleDirectAction"
    /\ Len(out) = 1
    /\ out[1].topic = "order"
    /\ HexValue(out[1].payload.nodes[1].nodeId) = HexValue(out[1].payload.orderId) + 1
    /\ HexValue(out[1].payload.nodes[1].actions[1].actionId) =
          HexValue(out[1].payload.orderId) + 2

\* An order built while the clock advanced between the reads.
C30_WitnessClockAdvanced ==
    /\ pc = "handleDirectAction"
    /\ Len(out) = 1
    /\ out[1].topic = "order"
    /\ HexValue(out[1].payload.nodes[1].nodeId) > HexValue(out[1].payload.orderId) + 1


(***************************************************************************)
(* More vocabulary: the active orders whose command has the base command   *)
(* of the given command.                                                   *)
(***************************************************************************)
SharingBase(command) ==
    {orderID \in DOMAIN activeOrders :
        BeforeFirstColon(activeOrders[orderID]) = BeforeFirstColon(command)}

(***************************************************************************)
(* C24: the cancel rule is checked first: every command ending with ':C'   *)
(* is handled as a cancel whose base command is the text before the first  *)
(* ':', and never builds an order or adds an active entry, even when it    *)
(* also contains ':T'; so only the commands not ending with ':C' reach     *)
(* the direct-action rule.                                                 *)
(***************************************************************************)
C24_CancelCheckedFirst ==
    [][(CommandStep /\ EndsWith(Trimmed(msg'.payload), ":", "C")) =>
        LET command == Trimmed(msg'.payload)
            robot == RobotPublishesOf(out')
        IN  /\ pc' = "handleCancelCommand"
            /\ OrdersIn(out') = <<>>
            /\ DOMAIN activeOrders' \subseteq DOMAIN activeOrders
            /\ IF SharingBase(command) = {}
               THEN /\ robot = <<>>
                    /\ ResponsesOf(out') = <<BeforeFirstColon(command) \o <<":", "F">> >>
               ELSE /\ Len(robot) = 1
                    /\ robot[1].topic = "instantActions"
                    /\ robot[1].ok =>
                          \E orderID \in SharingBase(command) :
                              /\ orderID \notin DOMAIN activeOrders'
                              /\ canceledOrders'[orderID] = command]_vars

\* The command P:T:C has cancelled an active order of base P.
C24_Witness ==
    /\ pc = "handleCancelCommand"
    /\ msg.payload = <<"P", ":", "T", ":", "C">>
    /\ Len(out) = 1
    /\ out[1].topic = "instantActions"
    /\ out[1].ok
    /\ \E orderID \in DOMAIN canceledOrders :
          canceledOrders[orderID] = <<"P", ":", "T", ":", "C">>

\* The padded command " Q:T:L:C\n" has been refused as a cancel without a
\* target.
C24_WitnessNoTarget ==
    /\ pc = "handleCancelCommand"
    /\ msg.payload = <<" ", "Q", ":", "T", ":", "L", ":", "C", "\n">>
    /\ ResponsesOf(out) = << <<"Q", ":", "F">> >>

(***************************************************************************)
(* C25: when several active orders share the base command of a cancel,     *)
(* the cancel picks exactly one of them: one instant action is published   *)
(* and, once it is accepted, exactly that entry moves from ActiveOrders to *)
(* CanceledOrders while every other matching entry stays in ActiveOrders   *)
(* unchanged; an order matches by the text before its first ':' alone,     *)
(* whatever its action type and arm.                                       *)
(***************************************************************************)
C25_CancelPicksExactlyOne ==
    [][(/\ CommandStep
        /\ EndsWith(Trimmed(msg'.payload), ":", "C")
        /\ Cardinality(SharingBase(Trimmed(msg'.payload))) >= 2)
       =>
        LET command == Trimmed(msg'.payload)
            robot == RobotPublishesOf(out')
        IN  /\ Len(robot) = 1
            /\ robot[1].topic = "instantActions"
            /\ Len(robot[1].payload.actions) = 1
            /\ IF robot[1].ok
               THEN \E target \in SharingBase(command) :
                        /\ DOMAIN activeOrders' = (DOMAIN activeOrders) \ {target}
                        /\ \A other \in DOMAIN activeOrders' :
                              activeOrders'[other] = activeOrders[other]
                        /\ DOMAIN canceledOrders' = (DOMAIN canceledOrders) \cup {target}
                        /\ canceledOrders'[target] = command
                        /\ \A other \in (DOMAIN canceledOrders) \ {target} :
                              canceledOrders'[other] = canceledOrders[other]
                        /\ SharingBase(command) \ {target} # {}
               ELSE /\ activeOrders' = activeOrders
                    /\ canceledOrders' = canceledOrders]_vars

\* Of two active orders of base P, the cancel P:C has moved one and left
\* the trajectory order where it was.
C25_Witness ==
    /\ pc = "handleCancelCommand"
    /\ msg.payload = <<"P", ":", "C">>
    /\ Len(out) = 1
    /\ out[1].ok
    /\ Cardinality(DOMAIN canceledOrders) = 1
    /\ Cardinality(DOMAIN activeOrders) = 1
    /\ \A orderID \in DOMAIN activeOrders : activeOrders[orderID] = <<"P", ":", "T", ":", "L">>
    /\ DOMAIN activeOrders \cap DOMAIN canceledOrders = {}

\* Likewise, with the inference order left where it was.
C25_WitnessInferenceStays ==
    /\ pc = "handleCancelCommand"
    /\ msg.payload = <<"P", ":", "C">>
    /\ Len(out) = 1
    /\ out[1].ok
    /\ Cardinality(DOMAIN canceledOrders) = 1
    /\ Cardinality(DOMAIN activeOrders) = 1
    /\ \A orderID \in DOMAIN activeOrders : activeOrders[orderID] = <<"P", ":", "I">>
    /\ DOMAIN activeOrders \cap DOMAIN canceledOrders = {}


(***************************************************************************)
(* More vocabulary: a state report that is processed for the given order.  *)
(***************************************************************************)
ReportStepFor(orderID) ==
    /\ StateStep
    /\ Lookable(msg'.report)
    /\ HasList(msg'.report)
    /\ msg'.report.orderId.val = orderID

(***************************************************************************)
(* C26: there is no timeout and no eviction.  An order leaves ActiveOrders *)
(* only in a step that handles a state report for its orderId with a       *)
(* terminal verdict (Failed, Success) or a cancel of its base command      *)
(* whose instant action was published, which puts it into CanceledOrders;  *)
(* an order leaves CanceledOrders only in a step that handles a state      *)
(* report for its orderId containing FAILED or FINISHED.  So an order that *)
(* receives no further report and no cancel stays in its map.              *)
(***************************************************************************)
C26_NoEviction ==
    [][/\ \A orderID \in (DOMAIN activeOrders) \ (DOMAIN activeOrders') :
            \/ /\ ReportStepFor(orderID)
               /\ ActiveVerdict(msg'.report.actionStates.val) \in {"Failed", "Success"}
            \/ /\ CommandStep
               /\ EndsWith(Trimmed(msg'.payload), ":", "C")
               /\ BeforeFirstColon(activeOrders[orderID]) =
                      BeforeFirstColon(Trimmed(msg'.payload))
               /\ \E i \in 1..Len(out') :
                      out'[i].topic = "instantActions" /\ out'[i].ok
               /\ orderID \in DOMAIN canceledOrders'
       /\ \A orderID \in (DOMAIN canceledOrders) \ (DOMAIN canceledOrders') :
            /\ ReportStepFor(orderID)
            /\ TerminalPositions(msg'.report.actionStates.val) # {}]_vars

\* A report has removed an active order with a terminal verdict while a
\* canceled order, not reported on, stays in CanceledOrders.
C26_Witness ==
    /\ pc = "processActionStates"
    /\ ActiveVerdict(msg.report.actionStates.val) \in {"Failed", "Success"}
    /\ msg.report.orderId.val \notin DOMAIN activeOrders
    /\ canceledOrders # EmptyMap
    /\ msg.report.orderId.val \notin DOMAIN canceledOrders

\* A report with the verdict Running has left the active order in place.
C26_WitnessStays ==
    /\ pc = "processActionStates"
    /\ ActiveVerdict(msg.report.actionStates.val) = "Running"
    /\ msg.report.orderId.val \in DOMAIN activeOrders
    /\ canceledOrders # EmptyMap

(***************************************************************************)
(* C27: a direct-action command that reaches the order builder with an     *)
(* action-type character other than 'I' and 'T' is answered with exactly   *)
(* one Failed response and nothing else is published; no order is built,   *)
(* ActiveOrders stays as it is and the header-id counter does not advance. *)
(***************************************************************************)
C27_UnsupportedTypeRejected ==
    [][(/\ BuilderStep
        /\ TypeChar(Trimmed(msg'.payload)) \notin {<<"I">>, <<"T">>})
       =>
        /\ Len(out') = 1
        /\ ResponsesOf(out') =
              <<BeforeFirstColon(Trimmed(msg'.payload)) \o <<":", "F">> >>
        /\ OrdersIn(out') = <<>>
        /\ activeOrders' = activeOrders
        /\ headerIDCounter' = headerIDCounter]_vars

\* The command P:X:I has been answered 'P:F' after earlier orders had
\* advanced the counter, with an order still active.
C27_Witness ==
    /\ pc = "handleDirectAction"
    /\ msg.payload = <<"P", ":", "X", ":", "I">>
    /\ Len(out) = 1
    /\ out[1].topic = "response"
    /\ out[1].payload = <<"P", ":", "F">>
    /\ headerIDCounter > 0
    /\ activeOrders # EmptyMap

(***************************************************************************)
(* C28: publishes are never retried: handling one command makes at most    *)
(* one Publish call to the robot (order or instantActions topic) and at    *)
(* most one to the response topic, whether the calls succeed or not, and   *)
(* a command whose response publish fails leaves ActiveOrders and          *)
(* CanceledOrders as they were; handling one state report makes at most    *)
(* one Publish call.                                                       *)
(***************************************************************************)
C28_NoRetry ==
    [][/\ CommandStep =>
            /\ Len(RobotPublishesOf(out')) <= 1
            /\ Len(ResponsesOf(out')) <= 1
            /\ Len(out') = Len(RobotPublishesOf(out')) + Len(ResponsesOf(out'))
            /\ (\E i \in 1..Len(out') : out'[i].topic = "response" /\ ~out'[i].ok) =>
                  /\ activeOrders' = activeOrders
                  /\ canceledOrders' = canceledOrders
       /\ StateStep =>
            /\ Len(out') <= 1
            /\ RobotPublishesOf(out') = <<>>]_vars

\* A cancel whose instant-action publish failed and whose Failed response
\* failed to publish as well: two Publish calls, the order still active.
C28_Witness ==
    /\ pc = "handleCancelCommand"
    /\ Len(out) = 2
    /\ out[1].topic = "instantActions"
    /\ ~out[1].ok
    /\ out[2].topic = "response"
    /\ ~out[2].ok
    /\ activeOrders # EmptyMap
    /\ canceledOrders = EmptyMap

(***************************************************************************)
(* C29: for an order in CanceledOrders, a report with no FAILED and no     *)
(* FINISHED status (only WAITING, INITIALIZING, RUNNING, unrecognized      *)
(* statuses, or no actions) publishes nothing, so no ':R', ':I' or ':W'    *)
(* response, and leaves CanceledOrders and ActiveOrders unchanged.         *)
(***************************************************************************)
C29_CanceledNonTerminalIgnored ==
    [][(/\ CanceledReportStep
        /\ TerminalPositions(msg'.report.actionStates.val) = {})
       =>
        /\ out' = <<>>
        /\ canceledOrders' = canceledOrders
        /\ activeOrders' = activeOrders]_vars

\* A report with RUNNING on a canceled order has been left unanswered.
C29_Witness ==
    /\ pc = "processCanceledOrderStates"
    /\ Reported(msg.report.actionStates.val, "RUNNING")
    /\ TerminalPositions(msg.report.actionStates.val) = {}
    /\ out = <<>>
    /\ msg.report.orderId.val \in DOMAIN canceledOrders

\* A report without actions on a canceled order likewise.
C29_WitnessNoActions ==
    /\ pc = "processCanceledOrderStates"
    /\ msg.report.actionStates.val = <<>>
    /\ out = <<>>
    /\ msg.report.orderId.val \in DOMAIN canceledOrders


(***************************************************************************)
(* C31: with the callbacks handled one at a time, each order receives at   *)
(* most one final response over its whole life: once a state report for    *)
(* an orderId was answered with a final status, through the active or the  *)
(* canceled path, every later state report for that orderId publishes      *)
(* nothing and changes no map.                                             *)
(***************************************************************************)
C31_OneFinalResponsePerOrder ==
    [][(/\ StateStep
        /\ Lookable(msg'.report)
        /\ msg'.report.orderId.val \in answered)
       =>
        /\ out' = <<>>
        /\ activeOrders' = activeOrders
        /\ canceledOrders' = canceledOrders]_vars


(***************************************************************************)
(* C32: every single callback emits at most one PLC response: a state      *)
(* report emits zero or one response however many actions it lists, and a  *)
(* command emits no response when its publish to the robot succeeds and    *)
(* exactly one Failed response otherwise.                                  *)
(***************************************************************************)
C32_AtMostOneResponse ==
    [][/\ StateStep => Len(ResponsesOf(out')) <= 1
       /\ CommandStep =>
            IF \E i \in 1..Len(out') :
                  out'[i].topic \in {"order", "instantActions"} /\ out'[i].ok
            THEN ResponsesOf(out') = <<>>
            ELSE ResponsesOf(out') =
                    <<BeforeFirstColon(Trimmed(msg'.payload)) \o <<":", "F">> >>]_vars


(***************************************************************************)
(* More vocabulary: a cancel whose instant-action publish failed.          *)
(***************************************************************************)
CancelPublishFailedStep ==
    /\ CommandStep
    /\ EndsWith(Trimmed(msg'.payload), ":", "C")
    /\ \E i \in 1..Len(out') : out'[i].topic = "instantActions" /\ ~out'[i].ok

(***************************************************************************)
(* C33: when the instant-action publish of a cancel fails, the target      *)
(* order stays in ActiveOrders with its original command, nothing is       *)
(* added to CanceledOrders, exactly one Failed response is emitted for the *)
(* cancel, and a later state report for that order is still reduced        *)
(* through the active-order path: the order is in ActiveOrders and not in  *)
(* CanceledOrders, where the report would be looked up first.              *)
(***************************************************************************)
C33_FailedCancelKeepsOrderActive ==
    [][CancelPublishFailedStep =>
        LET command == Trimmed(msg'.payload)
        IN  /\ activeOrders' = activeOrders
            /\ canceledOrders' = canceledOrders
            /\ ResponsesOf(out') = <<BeforeFirstColon(command) \o <<":", "F">> >>
            /\ \E target \in SharingBase(command) :
                  /\ target \in DOMAIN activeOrders'
                  /\ activeOrders'[target] = activeOrders[target]
                  /\ target \notin DOMAIN canceledOrders']_vars


(***************************************************************************)
(* C34: after a cancel was accepted for the only active order with base B, *)
(* a second cancel for B that comes before a new order with base B finds   *)
(* no target: with an entry of base B in CanceledOrders and none in        *)
(* ActiveOrders, the cancel is answered 'B:F' at once, publishes no        *)
(* instant action and leaves CanceledOrders, the stored cancel command     *)
(* included, and ActiveOrders unchanged.                                   *)
(***************************************************************************)
C34_SecondCancelFindsNoTarget ==
    [][(/\ CommandStep
        /\ EndsWith(Trimmed(msg'.payload), ":", "C")
        /\ SharingBase(Trimmed(msg'.payload)) = {}
        /\ \E orderID \in DOMAIN canceledOrders :
              BeforeFirstColon(canceledOrders[orderID]) =
                  BeforeFirstColon(Trimmed(msg'.payload)))
       =>
        /\ out' # <<>>
        /\ Len(out') = 1
        /\ out'[1].topic = "response"
        /\ out'[1].payload = BeforeFirstColon(Trimmed(msg'.payload)) \o <<":", "F">>
        /\ canceledOrders' = canceledOrders
        /\ activeOrders' = activeOrders
        /\ headerIDCounter' = headerIDCounter]_vars

\* The order of base P was cancelled by P:T:C; the second cancel P:C has
\* been answered 'P:F' and the stored cancel command is still P:T:C.
C34_Witness ==
    /\ pc = "handleCancelCommand"
    /\ msg.payload = <<"P", ":", "C">>
    /\ Len(out) = 1
    /\ out[1].topic = "response"
    /\ out[1].payload = <<"P", ":", "F">>
    /\ activeOrders = EmptyMap
    /\ \E orderID \in DOMAIN canceledOrders :
          canceledOrders[orderID] = <<"P", ":", "T", ":", "C">>


(***************************************************************************)
(* C35: the header-id counter advances by exactly one for each order or    *)
(* instant-action message that is built, whether its publish succeeds or   *)
(* fails, and the message carries the new value; the counter is left       *)
(* unchanged by state reports, by invalid commands, by commands with an    *)
(* unsupported action type and by cancels with no matching active order.   *)
(***************************************************************************)
C35_HeaderCounterPerMessage ==
    [][/\ headerIDCounter' = headerIDCounter + Len(RobotPublishesOf(out'))
       /\ \A i \in 1..Len(RobotPublishesOf(out')) :
             RobotPublishesOf(out')[i].payload.headerId = headerIDCounter + 1
       /\ StateStep => headerIDCounter' = headerIDCounter
       /\ (/\ CommandStep
           /\ \/ ~EndsWith(Trimmed(msg'.payload), ":", "C")
                 /\ ~AcceptedAsDirectAction(Trimmed(msg'.payload))
              \/ BuilderStep
                 /\ TypeChar(Trimmed(msg'.payload)) \notin {<<"I">>, <<"T">>}
              \/ EndsWith(Trimmed(msg'.payload), ":", "C")
                 /\ SharingBase(Trimmed(msg'.payload)) = {})
          => headerIDCounter' = headerIDCounter]_vars

\* An order whose publish failed has advanced the counter to its header id,
\* after an earlier message.
C35_Witness ==
    /\ pc = "handleDirectAction"
    /\ Len(out) = 2
    /\ out[1].topic = "order"
    /\ ~out[1].ok
    /\ out[1].payload.headerId = headerIDCounter
    /\ headerIDCounter >= 2

\* A cancel without a target has left the advanced counter as it was: the
\* active order holds the last header id given out.
C35_WitnessNoTarget ==
    /\ pc = "handleCancelCommand"
    /\ RobotPublishesOf(out) = <<>>
    /\ ResponsesOf(out) # <<>>
    /\ headerIDCounter = 1
    /\ activeOrders # EmptyMap


(***************************************************************************)
(* More vocabulary: a report whose first FAILED-or-FINISHED action, in     *)
(* report order, is FINISHED, and one that besides lists an action that is *)
(* RUNNING, INITIALIZING, WAITING or FAILED.                               *)
(***************************************************************************)
FinishedFirst(actionStates) ==
    /\ TerminalPositions(actionStates) # {}
    /\ actionStates[FirstTerminal(actionStates)].actionStatus = "FINISHED"

FinishedFirstAmongOthers(actionStates) ==
    /\ FinishedFirst(actionStates)
    /\ \E status \in {"RUNNING", "INITIALIZING", "WAITING", "FAILED"} :
          Reported(actionStates, status)

(***************************************************************************)
(* C36: for a canceled order only the first FAILED-or-FINISHED action in   *)
(* report order counts: a report with FINISHED before any FAILED is        *)
(* answered with Success and removes the entry, even if other actions are  *)
(* RUNNING, INITIALIZING or WAITING or a later action is FAILED; the same  *)
(* report on an active order is answered with Failed, or with a            *)
(* non-terminal verdict that keeps the entry.                              *)
(***************************************************************************)
C36_CanceledFirstTerminalOnly ==
    [][/\ (CanceledReportStep /\ FinishedFirst(msg'.report.actionStates.val)) =>
            LET orderID == msg'.report.orderId.val
            IN  /\ ResponsesOf(out') =
                      <<BeforeFirstColon(canceledOrders[orderID]) \o <<":", "S">> >>
                /\ orderID \notin DOMAIN canceledOrders'
       /\ (ActiveReportStep /\ FinishedFirstAmongOthers(msg'.report.actionStates.val)) =>
            LET orderID == msg'.report.orderId.val
                base == BeforeFirstColon(activeOrders[orderID])
            IN  IF Reported(msg'.report.actionStates.val, "FAILED")
                THEN /\ ResponsesOf(out') = <<base \o <<":", "F">> >>
                     /\ orderID \notin DOMAIN activeOrders'
                ELSE /\ \E letter \in {"R", "I", "W"} :
                           ResponsesOf(out') = <<base \o <<":", letter>> >>
                     /\ orderID \in DOMAIN activeOrders']_vars

\* A report FINISHED, RUNNING on a canceled order has been answered with
\* Success and has removed the entry.
C36_Witness ==
    /\ pc = "processCanceledOrderStates"
    /\ msg.report.actionStates.val = <<ActionState("FINISHED"), ActionState("RUNNING")>>
    /\ ResponsesOf(out) = << <<"P", ":", "S">> >>
    /\ msg.report.orderId.val \notin DOMAIN canceledOrders

\* The same report on an active order has been answered with Running and
\* has kept the entry.
C36_WitnessActive ==
    /\ pc = "processActionStates"
    /\ msg.report.actionStates.val = <<ActionState("FINISHED"), ActionState("RUNNING")>>
    /\ ResponsesOf(out) = << <<"P", ":", "R">> >>
    /\ msg.report.orderId.val \in DOMAIN activeOrders


(***************************************************************************)
(* More vocabulary: a state report that is delivered and not handled yet,  *)
(* on an order in CanceledOrders or on one in ActiveOrders only; the call  *)
(* that handles it; a report handled and answered with Failed; the steps   *)
(* in which an orderId enters a map.                                       *)
(***************************************************************************)
DeliveredForCanceled ==
    /\ pc = "Subscriber.handleRobotState"
    /\ msg.report.orderId.val \in DOMAIN canceledOrders

DeliveredForActive ==
    /\ pc = "Subscriber.handleRobotState"
    /\ msg.report.orderId.val \notin DOMAIN canceledOrders
    /\ msg.report.orderId.val \in DOMAIN activeOrders

HandlingStep == pc = "Subscriber.handleRobotState" /\ pc' # pc

AnsweredFailed ==
    /\ pc \in {"processActionStates", "processCanceledOrderStates"}
    /\ Len(ResponsesOf(out)) = 1
    /\ EndsWith(ResponsesOf(out)[1], ":", "F")

EntersOnlyWhenGenerated ==
    \A orderID \in ((DOMAIN activeOrders') \cup (DOMAIN canceledOrders')) \ Tracked :
        \E i \in 1..Len(OrdersPublished(out')) :
            OrdersPublished(out')[i].payload.orderId = orderID

(***************************************************************************)
(* C37 as it stands: under fairness of callback processing, when a state   *)
(* report carrying a FAILED status is delivered for an orderId tracked in  *)
(* ActiveOrders or CanceledOrders, eventually a ':F' response for that     *)
(* order's base command is emitted and the orderId is in neither map; it   *)
(* enters a map again only when the same orderId is generated again.       *)
(***************************************************************************)
C37_FailedReportEventuallyFailed ==
    /\ (/\ DeliveredForCanceled \/ DeliveredForActive
        /\ Reported(msg.report.actionStates.val, "FAILED"))
       ~> (AnsweredFailed /\ msg.report.orderId.val \notin Tracked)
    /\ [][(/\ HandlingStep
           /\ DeliveredForCanceled \/ DeliveredForActive
           /\ Reported(msg.report.actionStates.val, "FAILED"))
          =>
           LET orderID == msg.report.orderId.val
               base == BeforeFirstColon(IF orderID \in DOMAIN canceledOrders
                                        THEN canceledOrders[orderID]
                                        ELSE activeOrders[orderID])
           IN  /\ ResponsesOf(out') = <<base \o <<":", "F">> >>
               /\ orderID \notin DOMAIN activeOrders'
               /\ orderID \notin DOMAIN canceledOrders']_vars
    /\ [][EntersOnlyWhenGenerated]_vars

(***************************************************************************)
(* C37 as amended: under fairness of callback processing, when a state     *)
(* report is delivered for an orderId in CanceledOrders and the first of   *)
(* its FAILED or FINISHED statuses is FAILED, or for an orderId in         *)
(* ActiveOrders only and it carries FAILED, eventually the report is       *)
(* handled and a ':F' response is emitted: the one for the base command of *)
(* the entry the report is looked up in (CanceledOrders first), and the    *)
(* orderId is gone from that map; an orderId enters a map again only when  *)
(* the same orderId is generated again.                                    *)
(***************************************************************************)
C37_FirstFailedEventuallyFailed ==
    /\ (\/ /\ DeliveredForCanceled
           /\ CanceledVerdict(msg.report.actionStates.val) = "Failed"
        \/ /\ DeliveredForActive
           /\ Reported(msg.report.actionStates.val, "FAILED"))
       ~> AnsweredFailed
    /\ [][(/\ HandlingStep
           /\ DeliveredForCanceled
           /\ CanceledVerdict(msg.report.actionStates.val) = "Failed")
          =>
           LET orderID == msg.report.orderId.val
           IN  /\ pc' = "processCanceledOrderStates"
               /\ msg' = msg
               /\ ResponsesOf(out') =
                     <<BeforeFirstColon(canceledOrders[orderID]) \o <<":", "F">> >>
               /\ orderID \notin DOMAIN canceledOrders'
               /\ activeOrders' = activeOrders]_vars
    /\ [][(/\ HandlingStep
           /\ DeliveredForActive
           /\ Reported(msg.report.actionStates.val, "FAILED"))
          =>
           LET orderID == msg.report.orderId.val
           IN  /\ pc' = "processActionStates"
               /\ msg' = msg
               /\ ResponsesOf(out') =
                     <<BeforeFirstColon(activeOrders[orderID]) \o <<":", "F">> >>
               /\ orderID \notin DOMAIN activeOrders'
               /\ orderID \notin DOMAIN canceledOrders']_vars
    /\ [][EntersOnlyWhenGenerated]_vars

\* A report RUNNING, FAILED delivered for a canceled order has been answered
\* 'P:F' and the orderId is in neither map.
C37_Witness ==
    /\ pc = "processCanceledOrderStates"
    /\ msg.report.actionStates.val = <<ActionState("RUNNING"), ActionState("FAILED")>>
    /\ ResponsesOf(out) = << <<"P", ":", "F">> >>
    /\ msg.report.orderId.val \notin Tracked

\* A report FINISHED, FAILED delivered for an active order likewise.
C37_WitnessActive ==
    /\ pc = "processActionStates"
    /\ msg.report.actionStates.val = <<ActionState("FINISHED"), ActionState("FAILED")>>
    /\ ResponsesOf(out) = << <<"P", ":", "F">> >>
    /\ msg.report.orderId.val \notin Tracked

=============================================================================
